---- MODULE Spec2Model ----
(***************************************************************************)
(* A model of the JPA relationship generator of nvim-javagenie:            *)
(*   rplugin/python3/utils/entity_rel_utils.py  (EntityRelationshipUtils)  *)
(*   rplugin/python3/utils/treesitter_utils.py  (TreesitterUtils)          *)
(*   rplugin/python3/lib/commonhelper.py        (CommonHelper)             *)
(*                                                                         *)
(* Representation.  A Python str (and the bytes of a file) is a sequence   *)
(* of tokens, each token a TLA+ string; str concatenation is \o on         *)
(* sequences and Render gives the flat text.  A token counts as one        *)
(* character; its width in bytes is ByteWidth.  A class name is kept as a  *)
(* sequence of one-letter strings where the code works on its letters.     *)
(* An Optional value is a sequence of length at most one (None == <<>>).   *)
(***************************************************************************)
EXTENDS Integers, Sequences, FiniteSets, TLC

VARIABLES
    pc,                      \* position of the running command
    kind,                    \* which create_*_relationship_field is running
    args,                    \* its Create*RelArgs
    owning_data,             \* owning_side_file_data: its JavaFileData
    inverse_data,            \* inverse_side_file_data: its JavaFileData
    field_template,          \* local field_template of create_*
    importing_list,          \* TreesitterUtils' pending import list
    ub,                      \* frame of EntityRelationshipUtils.update_buffer
    disk,                    \* path -> bytes of the file
    disk0,                   \* the files when this command began
    editor,                  \* path -> text of the editor's buffer
    effects,                 \* writes and editor commands of this command
    steps,                   \* steps of this command, in order
    failure,                 \* message of the exception that ended it
    runs,                    \* commands started so far
    call,                    \* a direct call of a generator function
    ret                      \* and what it returned

vars == <<pc, kind, args, owning_data, inverse_data,
          field_template, importing_list, ub, disk, disk0, editor, effects,
          steps, failure, runs, call, ret>>

-----------------------------------------------------------------------------
(* Python values *)

None == <<>>

Some(v) == <<v>>

IsNone(o) == o = <<>>

RECURSIVE Render(_)
Render(toks) == IF toks = <<>> THEN "" ELSE Head(toks) \o Render(Tail(toks))

Has(toks, t) == \E i \in 1..Len(toks) : toks[i] = t

\* sep.join(parts), parts a sequence of strs
RECURSIVE Join(_, _)
Join(sep, parts) ==
    IF parts = <<>> THEN <<>>
    ELSE IF Len(parts) = 1 THEN parts[1]
    ELSE parts[1] \o <<sep>> \o Join(sep, Tail(parts))

\* str(b).lower() of a bool
BoolStr(b) == IF b THEN "true" ELSE "false"

UpperLetters == <<"A","B","C","D","E","F","G","H","I","J","K","L","M",
                  "N","O","P","Q","R","S","T","U","V","W","X","Y","Z">>

LowerLetters == <<"a","b","c","d","e","f","g","h","i","j","k","l","m",
                  "n","o","p","q","r","s","t","u","v","w","x","y","z">>

IsUpper(c) == \E i \in 1..Len(UpperLetters) : UpperLetters[i] = c

LowerChar(c) ==
    IF IsUpper(c)
    THEN LowerLetters[CHOOSE i \in 1..Len(UpperLetters) : UpperLetters[i] = c]
    ELSE c

\* str.lower()
Lower(s) == [i \in 1..Len(s) |-> LowerChar(s[i])]

-----------------------------------------------------------------------------
(* EntityRelationshipUtils.process_cascades_params *)

CascadeNames == <<"PERSIST", "MERGE", "REMOVE", "REFRESH", "DETACH">>

\* the list cascades after the five appends
CascadesList(cascade_persist, cascade_merge, cascade_remove, cascade_refresh, cascade_detach) ==
    (IF cascade_persist THEN <<"PERSIST">> ELSE <<>>)
    \o (IF cascade_merge THEN <<"MERGE">> ELSE <<>>)
    \o (IF cascade_remove THEN <<"REMOVE">> ELSE <<>>)
    \o (IF cascade_refresh THEN <<"REFRESH">> ELSE <<>>)
    \o (IF cascade_detach THEN <<"DETACH">> ELSE <<>>)

\* merged_params for a list cascades, with the sentinel taken at four flags
MergedParamsAllAtFour(cascades) ==
    IF Len(cascades) >= 4 THEN Some(<<"cascade = ", "CascadeType.", "ALL">>)
    ELSE IF Len(cascades) = 1
    THEN Some(<<"cascade = ", "CascadeType.", cascades[1]>>)
    ELSE IF Len(cascades) = 0 THEN None
    ELSE Some(<<"cascade = ", "{">>
              \o Join(", ", [i \in 1..Len(cascades) |->
                                <<"CascadeType.", cascades[i]>>])
              \o <<"}">>)

\* merged_params for a list cascades
MergedParams(cascades) ==
    IF Len(cascades) = 5 THEN Some(<<"cascade = ", "CascadeType.", "ALL">>)
    ELSE IF Len(cascades) = 1
    THEN Some(<<"cascade = ", "CascadeType.", cascades[1]>>)
    ELSE IF Len(cascades) = 0 THEN None
    ELSE Some(<<"cascade = ", "{">>
              \o Join(", ", [i \in 1..Len(cascades) |->
                                <<"CascadeType.", cascades[i]>>])
              \o <<"}">>)

\* returns merged_params; imports is what it hands to add_to_importing_list
process_cascades_params(cascade_persist, cascade_merge, cascade_remove, cascade_refresh, cascade_detach) ==
    [out |-> MergedParams(CascadesList(cascade_persist, cascade_merge,
                                       cascade_remove, cascade_refresh,
                                       cascade_detach)),
     imports |-> <<"jakarta.persistence.CascadeType">>]

-----------------------------------------------------------------------------
(* CommonHelper: names *)

UpperChar(c) ==
    IF \E i \in 1..Len(LowerLetters) : LowerLetters[i] = c
    THEN UpperLetters[CHOOSE i \in 1..Len(LowerLetters) : LowerLetters[i] = c]
    ELSE c

\* str.upper()
Upper(s) == [i \in 1..Len(s) |-> UpperChar(s[i])]

\* str.title() of a one-word lower-case value
Title(s) == [i \in 1..Len(s) |-> IF i = 1 THEN UpperChar(s[i]) ELSE LowerChar(s[i])]

\* word.endswith(suffix)
EndsWith(word, suffix) ==
    /\ Len(word) >= Len(suffix)
    /\ SubSeq(word, Len(word) - Len(suffix) + 1, Len(word)) = suffix

Vowels == {"a", "e", "i", "o", "u"}

\* CommonHelper.pluralize; word[-2] of a one-letter word raises IndexError,
\* which is outside the names used here (PluralizeDefined)
PluralizeDefined(word) ==
    Len(word) >= 1
    /\ (EndsWith(word, <<"y">>)
        /\ ~(\E sfx \in {<<"s">>, <<"s","h">>, <<"c","h">>, <<"x">>, <<"z">>} :
                EndsWith(word, sfx))
        => Len(word) >= 2)

\* pluralize, were there no rule for a trailing fe
pluralizeWithoutFe(word) ==
    IF \E sfx \in {<<"s">>, <<"s","h">>, <<"c","h">>, <<"x">>, <<"z">>} :
          EndsWith(word, sfx)
    THEN word \o <<"e", "s">>
    ELSE IF EndsWith(word, <<"y">>) /\ word[Len(word) - 1] \notin Vowels
    THEN SubSeq(word, 1, Len(word) - 1) \o <<"i", "e", "s">>
    ELSE IF EndsWith(word, <<"f">>)
    THEN SubSeq(word, 1, Len(word) - 1) \o <<"v", "e", "s">>
    ELSE word \o <<"s">>

\* pluralize, were the letter before a trailing y not looked at
pluralizeNoVowelTest(word) ==
    IF \E sfx \in {<<"s">>, <<"s","h">>, <<"c","h">>, <<"x">>, <<"z">>} :
          EndsWith(word, sfx)
    THEN word \o <<"e", "s">>
    ELSE IF EndsWith(word, <<"y">>)
    THEN SubSeq(word, 1, Len(word) - 1) \o <<"i", "e", "s">>
    ELSE IF EndsWith(word, <<"f">>)
    THEN SubSeq(word, 1, Len(word) - 1) \o <<"v", "e", "s">>
    ELSE IF EndsWith(word, <<"f", "e">>)
    THEN SubSeq(word, 1, Len(word) - 2) \o <<"v", "e", "s">>
    ELSE word \o <<"s">>

pluralize(word) ==
    IF \E sfx \in {<<"s">>, <<"s","h">>, <<"c","h">>, <<"x">>, <<"z">>} :
          EndsWith(word, sfx)
    THEN word \o <<"e", "s">>
    ELSE IF EndsWith(word, <<"y">>) /\ word[Len(word) - 1] \notin Vowels
    THEN SubSeq(word, 1, Len(word) - 1) \o <<"i", "e", "s">>
    ELSE IF EndsWith(word, <<"f">>)
    THEN SubSeq(word, 1, Len(word) - 1) \o <<"v", "e", "s">>
    ELSE IF EndsWith(word, <<"f", "e">>)
    THEN SubSeq(word, 1, Len(word) - 2) \o <<"v", "e", "s">>
    ELSE word \o <<"s">>

\* generate_field_name, were the case of the first character inverted
generate_field_nameCaseInverted(field_type, plural) ==
    LET field_name == IF plural THEN pluralize(field_type) ELSE field_type
    IN  <<IF IsUpper(field_name[1]) THEN LowerChar(field_name[1])
          ELSE UpperChar(field_name[1])>> \o Tail(field_name)

\* CommonHelper.generate_field_name
generate_field_name(field_type, plural) ==
    LET field_name == IF plural THEN pluralize(field_type) ELSE field_type
    IN  <<LowerChar(field_name[1])>> \o Tail(field_name)

\* the substitution, were an underscore put only before an upper-case
\* letter that follows a lower-case one
RECURSIVE SubUnderscoreWordStarts(_, _)
SubUnderscoreWordStarts(s, i) ==
    IF i > Len(s) THEN <<>>
    ELSE (IF i > 1 /\ IsUpper(s[i]) /\ ~IsUpper(s[i - 1])
          THEN <<"_", s[i]>> ELSE <<s[i]>>)
         \o SubUnderscoreWordStarts(s, i + 1)

\* re.sub(r"(?<!^)(?=[A-Z])", "_", field_name): an underscore before every
\* upper-case letter that is not at position 0
RECURSIVE SubUnderscore(_, _)
SubUnderscore(s, i) ==
    IF i > Len(s) THEN <<>>
    ELSE (IF i > 1 /\ IsUpper(s[i]) THEN <<"_", s[i]>> ELSE <<s[i]>>)
         \o SubUnderscore(s, i + 1)

\* CommonHelper.generate_snaked_field_name (convert_to_snake_case of the
\* relationship code)
generate_snaked_field_name(field_name) == Lower(SubUnderscore(field_name, 1))

-----------------------------------------------------------------------------
(* EntityRelationshipUtils: annotation parameters *)

\* EntityRelationshipUtils.process_extra_params; every argument is Optional.
\* name is a text, mapped_by a name in letters, fetch_type the value of a
\* FetchType in letters.
process_extra_params(nullable, optional, unique, orphan_removal, fetch_type, name, mapped_by) ==
    LET params ==
            (IF ~IsNone(name)
             THEN << <<"name = ", "\"", name[1], "\"">> >> ELSE <<>>)
         \o (IF ~IsNone(mapped_by)
             THEN << <<"mappedBy = ", "\"", Render(Lower(mapped_by[1])), "\"">> >>
             ELSE <<>>)
         \o (IF ~IsNone(nullable)
             THEN << <<"nullable = ", BoolStr(nullable[1])>> >> ELSE <<>>)
         \o (IF ~IsNone(optional)
             THEN << <<"optional = ", BoolStr(optional[1])>> >> ELSE <<>>)
         \o (IF ~IsNone(unique)
             THEN << <<"unique = ", BoolStr(unique[1])>> >> ELSE <<>>)
         \o (IF ~IsNone(orphan_removal)
             THEN << <<"orphanRemoval = ", BoolStr(orphan_removal[1])>> >>
             ELSE <<>>)
         \o (IF ~IsNone(fetch_type)
             THEN << <<"fetch = ", "FetchType.", Render(Upper(fetch_type[1]))>> >>
             ELSE <<>>)
    IN  [out |-> Join(", ", params),
         imports |-> IF ~IsNone(fetch_type)
                     THEN <<"jakarta.persistence.FetchType">> ELSE <<>>]

\* body += "(" + ", ".join(params) + ")" when params is not empty
WithParams(body, params) ==
    IF Len(params) > 0
    THEN <<body, "(">> \o Join(", ", params) \o <<")">>
    ELSE <<body>>

\* params, were the cascade parameter put before the others
ParamsOfCascadeFirst(extra, cascade_param) ==
    (IF ~IsNone(cascade_param) /\ cascade_param[1] # <<>>
     THEN <<cascade_param[1]>> ELSE <<>>) \o extra

\* params after params.append(extra_params) and the append of a truthy
\* cascade_param
ParamsOf(extra, cascade_param) ==
    extra \o (IF ~IsNone(cascade_param) /\ cascade_param[1] # <<>>
              THEN <<cascade_param[1]>> ELSE <<>>)

\* EntityRelationshipUtils.generate_one_to_many_annotation_body
generate_one_to_many_annotation_body(one_field_type, cascade_persist, cascade_merge, cascade_remove, cascade_refresh, cascade_detach, orphan_removal) ==
    LET cascade_param == process_cascades_params(
            cascade_persist, cascade_merge, cascade_remove, cascade_refresh,
            cascade_detach)
        extra_params == process_extra_params(
            None, None, None, Some(orphan_removal), None, None,
            Some(generate_snaked_field_name(one_field_type)))
    IN  [out |-> WithParams("@OneToMany",
                            ParamsOf(<<extra_params.out>>, cascade_param.out)),
         imports |-> cascade_param.imports \o extra_params.imports
                     \o <<"jakarta.persistence.OneToMany">>]

\* EntityRelationshipUtils.generate_many_to_one_annotation_body;
\* fetch_type is the FetchType's value in letters, FetchNone for NONE
FetchNone == <<"n", "o", "n", "e">>

FetchEager == <<"e", "a", "g", "e", "r">>

FetchLazy == <<"l", "a", "z", "y">>

generate_many_to_one_annotation_body(fetch_type, cascade_persist, cascade_merge, cascade_remove, cascade_refresh, cascade_detach, mandatory) ==
    LET cascade_param == process_cascades_params(
            cascade_persist, cascade_merge, cascade_remove, cascade_refresh,
            cascade_detach)
        extra_params == process_extra_params(
            None, Some(~mandatory), None, None,
            IF fetch_type # FetchNone THEN Some(fetch_type) ELSE None,
            None, None)
    IN  [out |-> WithParams("@ManyToOne",
                            ParamsOf(<<extra_params.out>>, cascade_param.out)),
         imports |-> cascade_param.imports \o extra_params.imports
                     \o <<"jakarta.persistence.ManyToOne">>]

\* EntityRelationshipUtils.generate_many_to_many_annotation_body;
\* mapped_by is Optional
\* generate_many_to_many_annotation_body, were the four flags together to
\* stand for REMOVE too
generate_many_to_many_annotation_bodyAllOfFour(cascade_persist, cascade_merge, cascade_refresh, cascade_detach, mapped_by) ==
    LET cascade_param == process_cascades_params(
            cascade_persist, cascade_merge,
            cascade_persist /\ cascade_merge /\ cascade_refresh
                /\ cascade_detach,
            cascade_refresh, cascade_detach)
        extra_params == process_extra_params(
            None, None, None, None, None, None, mapped_by)
    IN  [out |-> WithParams("@ManyToMany",
                            ParamsOf(IF ~IsNone(mapped_by)
                                     THEN <<extra_params.out>> ELSE <<>>,
                                     cascade_param.out)),
         imports |-> cascade_param.imports
                     \o (IF ~IsNone(mapped_by) THEN extra_params.imports
                         ELSE <<>>)
                     \o <<"jakarta.persistence.ManyToMany">>]

generate_many_to_many_annotation_body(cascade_persist, cascade_merge, cascade_refresh, cascade_detach, mapped_by) ==
    LET cascade_param == process_cascades_params(
            cascade_persist, cascade_merge, FALSE, cascade_refresh,
            cascade_detach)
        extra_params == process_extra_params(
            None, None, None, None, None, None, mapped_by)
    IN  [out |-> WithParams("@ManyToMany",
                            ParamsOf(IF ~IsNone(mapped_by)
                                     THEN <<extra_params.out>> ELSE <<>>,
                                     cascade_param.out)),
         imports |-> cascade_param.imports
                     \o (IF ~IsNone(mapped_by) THEN extra_params.imports
                         ELSE <<>>)
                     \o <<"jakarta.persistence.ManyToMany">>]

\* EntityRelationshipUtils.generate_one_to_one_annotation_body;
\* inverse_field_type is Optional
generate_one_to_one_annotation_body(cascade_persist, cascade_merge, cascade_remove, cascade_refresh, cascade_detach, orphan_removal, mandatory, inverse_field_type) ==
    LET cascade_param == process_cascades_params(
            cascade_persist, cascade_merge, cascade_remove, cascade_refresh,
            cascade_detach)
        extra_params == process_extra_params(
            None, Some(~mandatory), None, Some(orphan_removal), None, None,
            IF ~IsNone(inverse_field_type)
            THEN Some(generate_snaked_field_name(inverse_field_type[1]))
            ELSE None)
    IN  [out |-> WithParams("@OneToOne",
                            ParamsOf(<<extra_params.out>>, cascade_param.out)),
         imports |-> cascade_param.imports \o extra_params.imports
                     \o <<"jakarta.persistence.OneToOne">>]

\* generate_join_table_body, were the two join columns named the other way
\* round
generate_join_table_bodyColumnsSwapped(owning_side_field_type, inverse_side_field_type) ==
    LET snaked_owning_side_field_name ==
            Render(generate_snaked_field_name(owning_side_field_type))
        snaked_inverse_side_field_name ==
            Render(generate_snaked_field_name(inverse_side_field_type))
    IN  [out |-> <<"@JoinTable", "(",
                   "name = ", "\"", snaked_owning_side_field_name, "_",
                   snaked_inverse_side_field_name, "\"", ", ",
                   "joinColumns = ", "@JoinColumn", "(", "name = ", "\"",
                   snaked_inverse_side_field_name, "_id", "\"", ")", ", ",
                   "inverseJoinColumns = ", "@JoinColumn", "(", "name = ",
                   "\"", snaked_owning_side_field_name, "_id", "\"", ")",
                   ")">>,
         imports |-> <<"jakarta.persistence.JoinColumn",
                       "jakarta.persistence.JoinTable">>]

\* EntityRelationshipUtils.generate_join_table_body
generate_join_table_body(owning_side_field_type, inverse_side_field_type) ==
    LET snaked_owning_side_field_name ==
            Render(generate_snaked_field_name(owning_side_field_type))
        snaked_inverse_side_field_name ==
            Render(generate_snaked_field_name(inverse_side_field_type))
    IN  [out |-> <<"@JoinTable", "(",
                   "name = ", "\"", snaked_owning_side_field_name, "_",
                   snaked_inverse_side_field_name, "\"", ", ",
                   "joinColumns = ", "@JoinColumn", "(", "name = ", "\"",
                   snaked_owning_side_field_name, "_id", "\"", ")", ", ",
                   "inverseJoinColumns = ", "@JoinColumn", "(", "name = ",
                   "\"", snaked_inverse_side_field_name, "_id", "\"", ")",
                   ")">>,
         imports |-> <<"jakarta.persistence.JoinColumn",
                       "jakarta.persistence.JoinTable">>]

\* EntityRelationshipUtils.generate_join_column_body
generate_join_column_body(inverse_side_field_type, mandatory, unique) ==
    LET snaked_field_name ==
            Render(generate_snaked_field_name(inverse_side_field_type)) \o "_id"
        extra_params == process_extra_params(
            Some(~mandatory), None, Some(unique), None, None,
            Some(snaked_field_name), None)
    IN  [out |-> <<"@JoinColumn", "(">> \o extra_params.out \o <<")">>,
         imports |-> extra_params.imports
                     \o <<"jakarta.persistence.JoinColumn">>]

\* EntityRelationshipUtils.generate_field_body; collection_type is Optional,
\* the CollectionType's value in letters
CollectionSet == <<"s", "e", "t">>

CollectionList == <<"l", "i", "s", "t">>

CollectionCollection == <<"c", "o", "l", "l", "e", "c", "t", "i", "o", "n">>

generate_field_body(field_type, is_collection, collection_type) ==
    LET collection_name ==
            IF is_collection /\ ~IsNone(collection_type)
            THEN <<Render(Title(collection_type[1]))>> ELSE <<>>
        field_name == Render(generate_field_name(field_type, is_collection))
        initialization ==
            IF collection_type = Some(CollectionSet)
            THEN "LinkedHashSet<>()" ELSE "ArrayList<>()"
    IN  [out |-> <<"private ">> \o collection_name
                 \o (IF is_collection THEN <<"<">> ELSE <<>>)
                 \o <<Render(field_type)>>
                 \o (IF is_collection THEN <<">">> ELSE <<>>)
                 \o <<" ", field_name>>
                 \o (IF is_collection THEN <<" = new ", initialization>>
                     ELSE <<>>)
                 \o <<";">>,
         imports |->
            (IF collection_type = Some(CollectionSet)
             THEN <<"java.util.Set", "java.util.LinkedHashSet">> ELSE <<>>)
            \o (IF collection_type = Some(CollectionList)
                THEN <<"java.util.List", "java.util.ArrayList">> ELSE <<>>)
            \o (IF collection_type = Some(CollectionCollection)
                THEN <<"java.util.Collection", "java.util.ArrayList">>
                ELSE <<>>)]

-----------------------------------------------------------------------------
(* TreesitterUtils: trees.  A Tree is [text |-> the bytes it was parsed     *)
(* from]; what the queries find is computed from the tokens.               *)

NonAsciiTokens == {"<e-acute>"}

\* len(token.encode())
ByteWidth(tok) == IF tok \in NonAsciiTokens THEN 2 ELSE 1

\* len(text.encode()): the sum of the widths of the tokens
ByteLen(toks) ==
    Cardinality({i \in 1..Len(toks) : ByteWidth(toks[i]) = 1})
    + 2 * Cardinality({i \in 1..Len(toks) : ByteWidth(toks[i]) = 2})

\* TreesitterUtils.convert_buffer_to_tree
convert_buffer_to_tree(buffer_bytes) == [text |-> buffer_bytes]

\* braces open at token i: "{" before i minus "}" before i
Depth(text, i) ==
    Cardinality({j \in 1..(i - 1) : text[j] = "{"})
    - Cardinality({j \in 1..(i - 1) : text[j] = "}"})

\* the positions of S in the order of the text
Ascending(S) ==
    [n \in 1..Cardinality(S) |->
        CHOOSE i \in S : Cardinality({j \in S : j < i}) = n - 1]

\* the class_declaration nodes, in the order of the query's matches: the
\* positions of their class keyword
ClassDecls(text) ==
    Ascending({i \in 1..Len(text) : text[i] = "class "})

ModifierTokens == {"public", "final", "abstract", "static", "private",
                   "@Entity", "@Table", " ", "\n"}

\* the text of the modifiers child of the class at c: the run of modifier
\* tokens that ends right before the class keyword, without the white space
\* around it (empty: no such child)
ModifiersText(text, c) ==
    LET RECURSIVE Start(_)
        Start(i) == IF i >= 1 /\ text[i] \in ModifierTokens
                    THEN Start(i - 1) ELSE i + 1
        RECURSIVE Trim(_)
        Trim(t) == IF t # <<>> /\ Head(t) \in {" ", "\n"} THEN Trim(Tail(t))
                   ELSE IF t # <<>> /\ t[Len(t)] \in {" ", "\n"}
                   THEN Trim(SubSeq(t, 1, Len(t) - 1))
                   ELSE t
    IN  Trim(SubSeq(text, Start(c - 1), c - 1))

\* text.split("\n")[-1]
LastLine(toks) ==
    LET RECURSIVE After(_)
        After(i) == IF i >= 1 /\ toks[i] # "\n" THEN After(i - 1) ELSE i + 1
    IN  SubSeq(toks, After(Len(toks)), Len(toks))

\* TreesitterUtils.get_buffer_public_class_node_from_query_results, taking
\* the first class that qualifies
FirstPublicClassNode(text, query_results) ==
    LET quals == SelectSeq(query_results,
                     LAMBDA c : ModifiersText(text, c) # <<>>
                                /\ LastLine(ModifiersText(text, c)) = <<"public">>)
    IN  IF quals = <<>> THEN None ELSE Some(quals[1])

\* TreesitterUtils.get_buffer_public_class_node_from_query_results: the
\* loop keeps the last class whose modifiers' last line is "public"
get_buffer_public_class_node_from_query_results(text, query_results) ==
    LET quals == SelectSeq(query_results,
                     LAMBDA c : ModifiersText(text, c) # <<>>
                                /\ LastLine(ModifiersText(text, c)) = <<"public">>)
    IN  IF quals = <<>> THEN None ELSE Some(quals[Len(quals)])

\* child_by_field_name("body") of the class at c: the position of its "{"
ClassBody(text, c) ==
    IF c + 2 <= Len(text) /\ text[c + 2] = "{" THEN Some(c + 2) ELSE None

\* the position of the "}" that closes the "{" at open (0: unclosed)
BodyClose(text, open) ==
    LET closes == {j \in (open + 1)..Len(text) :
                      text[j] = "}" /\ Depth(text, j) = Depth(text, open) + 1}
    IN  IF closes = {} THEN 0 ELSE CHOOSE j \in closes : \A k \in closes : j <= k

\* buffer_public_class_has_method, were the methods of every class inside
\* the body counted
buffer_public_class_has_methodAnyDepth(tree, method_name) ==
    LET text == tree.text
        node == get_buffer_public_class_node_from_query_results(
                    text, ClassDecls(text))
        body == IF IsNone(node) THEN None ELSE ClassBody(text, node[1])
    IN  /\ ~IsNone(body)
        /\ \E j \in (body[1] + 1)..(Len(text) - 1) :
              /\ BodyClose(text, body[1]) = 0 \/ j < BodyClose(text, body[1])
              /\ text[j] = method_name
              /\ text[j + 1] = "("

\* TreesitterUtils.buffer_public_class_has_method
buffer_public_class_has_method(tree, method_name) ==
    LET text == tree.text
        node == get_buffer_public_class_node_from_query_results(
                    text, ClassDecls(text))
        body == IF IsNone(node) THEN None ELSE ClassBody(text, node[1])
    IN  /\ ~IsNone(body)
        /\ \E j \in (body[1] + 1)..(Len(text) - 1) :
              /\ BodyClose(text, body[1]) = 0 \/ j < BodyClose(text, body[1])
              /\ Depth(text, j) = Depth(text, body[1]) + 1
              /\ text[j] = method_name
              /\ text[j + 1] = "("

\* TreesitterUtils.insert_code_into_position: the decoded text is sliced at
\* insert_position counted in characters; None when the root text is empty
insert_code_into_position(tree, code, insert_position) ==
    IF tree.text = <<>> THEN None
    ELSE LET buffer_string == tree.text
             at == IF insert_position > Len(buffer_string)
                   THEN Len(buffer_string) ELSE insert_position
         IN  Some(convert_buffer_to_tree(
                 SubSeq(buffer_string, 1, at) \o code
                 \o SubSeq(buffer_string, at + 1, Len(buffer_string))))

\* get_entity_field_insert_byte: the byte right after the opening brace of
\* the public class's body; None without a public class or a body
get_entity_field_insert_byte(tree) ==
    LET text == tree.text
        node == get_buffer_public_class_node_from_query_results(
                    text, ClassDecls(text))
        body == IF IsNone(node) THEN None ELSE ClassBody(text, node[1])
    IN  IF IsNone(body) THEN None
        ELSE Some(ByteLen(SubSeq(text, 1, body[1])))

\* the import declarations of a text, in order
ImportsOf(text) ==
    LET at == Ascending({i \in 1..(Len(text) - 1) : text[i] = "import "})
    IN  [n \in 1..Len(at) |-> text[at[n] + 1]]

\* where the import block ends: after the ";" of the last import, else of
\* the package declaration, else the start of the text
ImportBlockEnd(text) ==
    LET imps == {i \in 1..Len(text) : text[i] = "import "}
        pkgs == {i \in 1..Len(text) : text[i] = "package "}
        last(S) == CHOOSE i \in S : \A j \in S : j <= i
    IN  IF imps # {} THEN last(imps) + 2
        ELSE IF pkgs # {} THEN last(pkgs) + 2 ELSE 0

\* add_to_importing_list: the pending imports are a set kept in the order
\* of arrival
RECURSIVE add_to_importing_list(_, _)
add_to_importing_list(list, import_list) ==
    IF import_list = <<>> THEN list
    ELSE add_to_importing_list(
             IF Has(list, Head(import_list)) THEN list
             ELSE Append(list, Head(import_list)),
             Tail(import_list))

\* add_imports_to_file_tree: existing imports first, the pending ones that
\* the file does not have appended to the import block
add_imports_to_file_tree(file_tree, pending) ==
    LET text == file_tree.text
        fresh == SelectSeq(pending, LAMBDA n : ~Has(ImportsOf(text), n))
        RECURSIVE Decls(_)
        Decls(ns) == IF ns = <<>> THEN <<>>
                     ELSE <<"\n", "import ", Head(ns), ";">> \o Decls(Tail(ns))
        at == ImportBlockEnd(text)
    IN  convert_buffer_to_tree(
            SubSeq(text, 1, at) \o Decls(fresh) \o SubSeq(text, at + 1, Len(text)))

-----------------------------------------------------------------------------
(* EntityRelationshipUtils: templates.  A JavaFileData is                   *)
(* [path, tree, file_name (in letters), package_path].                     *)

\* package_path + "." + file_name
QualifiedName(file_data) ==
    file_data.package_path \o "." \o Render(file_data.file_name)

\* the equals_method f-string
EqualsMethod(field_type, snaked_field_name) ==
    <<"\n", "@Override", "\n", "public final boolean ", "equals", "(",
      "Object o", ")", " ", "{", "\n",
      "if (this == o) return true; if (o == null) return false; ",
      "if (thisEffectiveClass != oEffectiveClass) return false;", "\n",
      field_type, " ", snaked_field_name, " = (", field_type, ") o;", "\n",
      "return getId() != null && Objects.equals(getId(), ",
      snaked_field_name, ".getId());", "\n", "}", "\n">>

\* the hashcode_method string
HashCodeMethod ==
    <<"\n", "@Override", "\n", "public final int ", "hashCode", "(", ")",
      " ", "{", "\n",
      "return this instanceof HibernateProxy ? ... : getClass().hashCode();",
      "\n", "}", "\n">>

\* generate_equals_hashcode_methods that emits whatever the class has
EqualsHashcodeAlways(field_type, file_tree) ==
    [out |-> Some(EqualsMethod(Render(field_type),
                               Render(generate_snaked_field_name(field_type)))
                  \o <<"\n">> \o HashCodeMethod),
     imports |-> <<"org.hibernate.proxy.HibernateProxy", "java.util.Objects">>]

\* generate_equals_hashcode_methods with `or` for `and` in its last test
EqualsHashcodeIfEitherMissing(field_type, file_tree) ==
    LET buffer_has_equals_method ==
            buffer_public_class_has_method(file_tree, "equals")
        buffer_has_hashcode_method ==
            buffer_public_class_has_method(file_tree, "hashCode")
        snaked_field_name == Render(generate_snaked_field_name(field_type))
    IN  [out |-> IF ~buffer_has_equals_method \/ ~buffer_has_hashcode_method
                 THEN Some(EqualsMethod(Render(field_type), snaked_field_name)
                           \o <<"\n">> \o HashCodeMethod)
                 ELSE None,
         imports |-> <<"org.hibernate.proxy.HibernateProxy",
                       "java.util.Objects">>]

\* EntityRelationshipUtils.generate_equals_hashcode_methods
generate_equals_hashcode_methods(field_type, file_tree) ==
    LET buffer_has_equals_method ==
            buffer_public_class_has_method(file_tree, "equals")
        buffer_has_hashcode_method ==
            buffer_public_class_has_method(file_tree, "hashCode")
        snaked_field_name == Render(generate_snaked_field_name(field_type))
    IN  [out |-> IF ~buffer_has_equals_method /\ ~buffer_has_hashcode_method
                 THEN Some(EqualsMethod(Render(field_type), snaked_field_name)
                           \o <<"\n">> \o HashCodeMethod)
                 ELSE None,
         imports |-> <<"org.hibernate.proxy.HibernateProxy",
                       "java.util.Objects">>]

\* generate_one_to_many_template, were mappedBy derived from the class of
\* the owning side
OneToManyTemplateMappedByOwning(owning_side_file_data, inverse_side_file_data, cascade_persist, cascade_merge, cascade_remove, cascade_refresh, cascade_detach, orphan_removal, collection_type) ==
    LET one_to_many_body == generate_one_to_many_annotation_body(
            owning_side_file_data.file_name, cascade_persist, cascade_merge,
            cascade_remove, cascade_refresh, cascade_detach, orphan_removal)
        field_body == generate_field_body(
            owning_side_file_data.file_name, TRUE, Some(collection_type))
    IN  [out |-> <<"\n\t">> \o one_to_many_body.out \o <<"\n\t">>
                 \o field_body.out \o <<"\n">>,
         imports |-> one_to_many_body.imports \o field_body.imports
                     \o <<QualifiedName(owning_side_file_data)>>]

\* EntityRelationshipUtils.generate_one_to_many_template
generate_one_to_many_template(owning_side_file_data, inverse_side_file_data, cascade_persist, cascade_merge, cascade_remove, cascade_refresh, cascade_detach, orphan_removal, collection_type) ==
    LET one_to_many_body == generate_one_to_many_annotation_body(
            inverse_side_file_data.file_name, cascade_persist, cascade_merge,
            cascade_remove, cascade_refresh, cascade_detach, orphan_removal)
        field_body == generate_field_body(
            owning_side_file_data.file_name, TRUE, Some(collection_type))
    IN  [out |-> <<"\n\t">> \o one_to_many_body.out \o <<"\n\t">>
                 \o field_body.out \o <<"\n">>,
         imports |-> one_to_many_body.imports \o field_body.imports
                     \o <<QualifiedName(owning_side_file_data)>>]

\* EntityRelationshipUtils.generate_many_to_one_template
generate_many_to_one_template(inverse_side_file_data, fetch_type, cascade_persist, cascade_merge, cascade_remove, cascade_refresh, cascade_detach, mandatory, unique) ==
    LET many_to_one_body == generate_many_to_one_annotation_body(
            fetch_type, cascade_persist, cascade_merge, cascade_remove,
            cascade_refresh, cascade_detach, mandatory)
        join_column_body == generate_join_column_body(
            inverse_side_file_data.file_name, mandatory, unique)
        field_body == generate_field_body(
            inverse_side_file_data.file_name, FALSE, None)
    IN  [out |-> <<"\n\t">> \o many_to_one_body.out \o <<"\n\t">>
                 \o join_column_body.out \o <<"\n\t">> \o field_body.out
                 \o <<"\n">>,
         imports |-> many_to_one_body.imports \o join_column_body.imports
                     \o field_body.imports
                     \o <<QualifiedName(inverse_side_file_data)>>]

\* EntityRelationshipUtils.generate_one_to_one_field_template;
\* owning_side_file_data is Optional
generate_one_to_one_field_template(inverse_side_file_data, owning_side_file_data, cascade_persist, cascade_merge, cascade_remove, cascade_refresh, cascade_detach, mandatory, unique, orphan_removal) ==
    LET one_to_one_body == generate_one_to_one_annotation_body(
            cascade_persist, cascade_merge, cascade_remove, cascade_refresh,
            cascade_detach, orphan_removal, mandatory,
            IF ~IsNone(owning_side_file_data)
            THEN Some(inverse_side_file_data.file_name) ELSE None)
        join_column_body == generate_join_column_body(
            inverse_side_file_data.file_name, mandatory, unique)
        field_body ==
            IF ~IsNone(owning_side_file_data)
            THEN generate_field_body(owning_side_file_data[1].file_name,
                                     FALSE, None)
            ELSE generate_field_body(inverse_side_file_data.file_name,
                                     FALSE, None)
    IN  [out |-> <<"\n\t">> \o one_to_one_body.out
                 \o (IF IsNone(owning_side_file_data)
                     THEN <<"\n\t">> \o join_column_body.out ELSE <<>>)
                 \o <<"\n\t">> \o field_body.out \o <<"\n">>,
         imports |-> one_to_one_body.imports
                     \o (IF IsNone(owning_side_file_data)
                         THEN join_column_body.imports ELSE <<>>)
                     \o field_body.imports
                     \o <<QualifiedName(inverse_side_file_data)>>
                     \o (IF ~IsNone(owning_side_file_data)
                         THEN <<QualifiedName(owning_side_file_data[1])>>
                         ELSE <<>>)]

\* the test before the identity methods, with `or` for `and`
WithMethodsEither(owning_side, equals_hashcode) ==
    ~owning_side \/ equals_hashcode

\* generate_many_to_many_field_template: `if not owning_side and
\* equals_hashcode`
WithMethods(owning_side, equals_hashcode) == ~owning_side /\ equals_hashcode

\* EntityRelationshipUtils.generate_many_to_many_field_template
generate_many_to_many_field_template(owning_side_file_data, inverse_side_file_data, cascade_persist, cascade_merge, cascade_refresh, cascade_detach, equals_hashcode, owning_side) ==
    LET many_to_many_body == generate_many_to_many_annotation_body(
            cascade_persist, cascade_merge, cascade_refresh, cascade_detach,
            IF ~owning_side THEN Some(inverse_side_file_data.file_name)
            ELSE None)
        join_table_body == generate_join_table_body(
            owning_side_file_data.file_name, inverse_side_file_data.file_name)
        field_body ==
            IF owning_side
            THEN generate_field_body(inverse_side_file_data.file_name, TRUE,
                                     Some(CollectionSet))
            ELSE generate_field_body(owning_side_file_data.file_name, TRUE,
                                     Some(CollectionSet))
        equals_and_hashcode == generate_equals_hashcode_methods(
            inverse_side_file_data.file_name, inverse_side_file_data.tree)
        with_methods == WithMethods(owning_side, equals_hashcode)
    IN  [out |-> <<"\n\t">> \o many_to_many_body.out
                 \o (IF owning_side THEN <<"\n\t">> \o join_table_body.out
                     ELSE <<>>)
                 \o <<"\n\t">> \o field_body.out \o <<"\n">>
                 \o (IF with_methods /\ ~IsNone(equals_and_hashcode.out)
                     THEN equals_and_hashcode.out[1] ELSE <<>>),
         imports |-> many_to_many_body.imports
                     \o (IF owning_side THEN join_table_body.imports ELSE <<>>)
                     \o field_body.imports
                     \o (IF with_methods THEN equals_and_hashcode.imports
                         ELSE <<>>)
                     \o <<QualifiedName(inverse_side_file_data)>>
                     \o (IF ~owning_side
                         THEN <<QualifiedName(owning_side_file_data)>>
                         ELSE <<>>)]

-----------------------------------------------------------------------------
(* The files and the arguments of a command *)

MaxRuns == 1

Paths == {"Order.java", "Customer.java"}

FileNameOf(path) ==
    IF path = "Order.java" THEN <<"O", "r", "d", "e", "r">>
    ELSE <<"C", "u", "s", "t", "o", "m", "e", "r">>

PackagePathOf(path) ==
    IF path = "Order.java" THEN "com.example.orders"
    ELSE "com.example.customers"

\* a file with a public entity class
EntityText(path) ==
    <<"package ", PackagePathOf(path), ";", "\n">>
    \o (IF path = "Customer.java"
        THEN <<"import ", "java.util.List", ";", "\n">> ELSE <<>>)
    \o <<"@Entity", "\n", "public", " ", "class ", Render(FileNameOf(path)),
         "{", "}">>

\* a file whose class is not public
PackagePrivateText(path) ==
    <<"package ", PackagePathOf(path), ";", "\n", "class ",
      Render(FileNameOf(path)), "{", "}">>

InitialTexts(path) == {EntityText(path), PackagePrivateText(path)}

\* the JavaFileData of a path: its file parsed once, when the command begins
JavaFileDataOf(path, bytes) ==
    [path |-> path, tree |-> convert_buffer_to_tree(bytes),
     file_name |-> FileNameOf(path), package_path |-> PackagePathOf(path)]

MappingType == {"UNIDIRECTIONAL_JOIN_COLUMN", "BIDIRECTIONAL_JOIN_COLUMN",
                "UNIDIRECTIONAL_JOIN_TABLE", "BIDIRECTIONAL_JOIN_TABLE"}

AllCascades == {"PERSIST", "MERGE", "REMOVE", "REFRESH", "DETACH"}

Kinds == {"many_to_one", "one_to_one", "many_to_many"}

NoArgs ==
    [mapping_type_enum |-> "UNIDIRECTIONAL_JOIN_COLUMN",
     owning_side_cascades_enum |-> {}, inverse_side_cascades_enum |-> {},
     owning_side_other_enum |-> {}, inverse_side_other_enum |-> {},
     fetch_type_enum |-> FetchNone, collection_type_enum |-> CollectionList]

\* the arguments a command is started with
ArgsOf(k) ==
    {[NoArgs EXCEPT !.mapping_type_enum = m,
                    !.owning_side_cascades_enum = oc,
                    !.inverse_side_cascades_enum = ic,
                    !.owning_side_other_enum = oo,
                    !.inverse_side_other_enum = io,
                    !.fetch_type_enum = f,
                    !.collection_type_enum = ct] :
        m \in MappingType,
        oc \in {{}, {"PERSIST", "MERGE"}},
        ic \in {{}, AllCascades},
        oo \in IF k = "many_to_many" THEN {{}, {"EQUALS_HASHCODE"}}
               ELSE {{}, {"MANDATORY", "UNIQUE"}},
        io \in IF k = "many_to_many" THEN {{}, {"EQUALS_HASHCODE"}}
               ELSE {{}, {"ORPHAN_REMOVAL"}},
        f \in IF k = "many_to_one" THEN {FetchNone, FetchEager}
              ELSE {FetchNone},
        ct \in IF k = "many_to_one" THEN {CollectionList, CollectionSet}
               ELSE {CollectionList}}

NoFileData == [path |-> "", tree |-> convert_buffer_to_tree(<<>>),
               file_name |-> <<>>, package_path |-> ""]

NoFrame ==
    [side |-> "", buffer_tree |-> convert_buffer_to_tree(<<>>),
     buffer_path |-> "", template |-> <<>>,
     updated_buffer_tree |-> convert_buffer_to_tree(<<>>),
     insert_byte |-> None, save |-> FALSE, format |-> FALSE,
     organize_imports |-> FALSE]

-----------------------------------------------------------------------------
(* EntityRelationshipUtils.create_*_relationship_field *)

\* the fragment of the owning side
OwningTemplate(k, owning, inverse, a) ==
    LET c == a.owning_side_cascades_enum
        o == a.owning_side_other_enum
    IN  IF k = "many_to_one"
        THEN generate_many_to_one_template(
                 inverse, a.fetch_type_enum, "PERSIST" \in c, "MERGE" \in c,
                 "REMOVE" \in c, "REFRESH" \in c, "DETACH" \in c,
                 "MANDATORY" \in o, "UNIQUE" \in o)
        ELSE IF k = "one_to_one"
        THEN generate_one_to_one_field_template(
                 inverse, None, "PERSIST" \in c, "MERGE" \in c, "REMOVE" \in c,
                 "REFRESH" \in c, "DETACH" \in c, "MANDATORY" \in o,
                 "UNIQUE" \in o, "ORPHAN_REMOVAL" \in o)
        ELSE generate_many_to_many_field_template(
                 owning, inverse, "PERSIST" \in c, "MERGE" \in c,
                 "REFRESH" \in c, "DETACH" \in c, FALSE, TRUE)

\* the fragment of the inverse side
InverseTemplate(k, owning, inverse, a) ==
    LET c == a.inverse_side_cascades_enum
        o == a.inverse_side_other_enum
    IN  IF k = "many_to_one"
        THEN generate_one_to_many_template(
                 owning, inverse, "PERSIST" \in c, "MERGE" \in c,
                 "REMOVE" \in c, "REFRESH" \in c, "DETACH" \in c,
                 "ORPHAN_REMOVAL" \in o, a.collection_type_enum)
        ELSE IF k = "one_to_one"
        THEN generate_one_to_one_field_template(
                 inverse, Some(owning), "PERSIST" \in c, "MERGE" \in c,
                 "REMOVE" \in c, "REFRESH" \in c, "DETACH" \in c,
                 "MANDATORY" \in o, "UNIQUE" \in o, "ORPHAN_REMOVAL" \in o)
        ELSE generate_many_to_many_field_template(
                 owning, inverse, "PERSIST" \in c, "MERGE" \in c,
                 "REFRESH" \in c, "DETACH" \in c, "EQUALS_HASHCODE" \in o,
                 FALSE)

\* the test that guards the inverse side, inverted for many-to-one
CallsForInverseSwapped(k, mapping_type_enum) ==
    IF k = "many_to_one"
    THEN mapping_type_enum # "BIDIRECTIONAL_JOIN_COLUMN"
    ELSE mapping_type_enum # "UNIDIRECTIONAL_JOIN_COLUMN"

\* the test that guards the inverse side, with one-to-one and many-to-many
\* asking for the bidirectional join column as many-to-one does
CallsForInverseBidirectionalOnly(k, mapping_type_enum) ==
    mapping_type_enum = "BIDIRECTIONAL_JOIN_COLUMN"

\* the test that guards the inverse side of each create_*
CallsForInverse(k, mapping_type_enum) ==
    IF k = "many_to_one"
    THEN mapping_type_enum = "BIDIRECTIONAL_JOIN_COLUMN"
    ELSE mapping_type_enum # "UNIDIRECTIONAL_JOIN_COLUMN"

\* where an exception raised under update_buffer takes the command, were
\* the owning side's caught and the command carried on
OnRaiseSwallowed(side) == IF side = "owning" THEN "build_inverse" ELSE "failed"

\* where an exception raised under update_buffer takes the command, were
\* the inverse side's update tried again
OnRaiseRetried(side) == IF side = "inverse" THEN "update_inverse" ELSE "failed"

\* where an exception raised under update_buffer takes the command: nothing
\* catches it
OnRaise(side) == "failed"

\* where the command goes when update_buffer has returned
AfterUpdate(side, k, a) ==
    IF side = "owning" /\ CallsForInverse(k, a.mapping_type_enum)
    THEN "build_inverse" ELSE "done"

-----------------------------------------------------------------------------
(* The commands, step by step *)

Effect(op, path, side, text) ==
    [op |-> op, path |-> path, side |-> side, text |-> text]

Failed(side, msg) ==
    /\ pc' = OnRaise(side)
    /\ failure' = msg

\* the step after an editor command, were `w` sent whether or not save is set
PersistNextSaveAlways(after, frame) ==
    IF after = "reload" THEN "save"
    ELSE IF after \in {"reload", "save"} /\ frame.organize_imports
    THEN "organize"
    ELSE IF after \in {"reload", "save", "organize"}
            /\ frame.format /\ ~frame.save
    THEN "format"
    ELSE "return"

\* the step after an editor command of TreesitterUtils.update_buffer
PersistNext(after, frame) ==
    IF after = "reload" /\ frame.save THEN "save"
    ELSE IF after \in {"reload", "save"} /\ frame.organize_imports
    THEN "organize"
    ELSE IF after \in {"reload", "save", "organize"}
            /\ frame.format /\ ~frame.save
    THEN "format"
    ELSE "return"

Goto(next) ==
    IF next # "return" THEN pc' = next /\ steps' = steps
    ELSE IF kind = "update_buffer" THEN pc' = "done" /\ steps' = Append(steps, "Done")
    ELSE /\ pc' = AfterUpdate(ub.side, kind, args)
         /\ steps' = IF AfterUpdate(ub.side, kind, args) = "done"
                     THEN Append(steps, "Done") ELSE steps

\* a create_*_relationship_field command begins with its two file records
Create(k, owning_path, inverse_path, a) ==
    /\ runs' = runs + 1
    /\ kind' = k
    /\ args' = a
    /\ owning_data' = JavaFileDataOf(owning_path, disk[owning_path])
    /\ inverse_data' = JavaFileDataOf(inverse_path, disk[inverse_path])
    /\ field_template' = <<>>
    /\ ub' = NoFrame
    /\ disk0' = disk
    /\ effects' = <<>>
    /\ steps' = <<>>
    /\ failure' = ""
    /\ pc' = "build_owning"
    /\ UNCHANGED <<importing_list, disk, editor, call, ret>>

\* TreesitterUtils.update_buffer called on its own
UpdateBufferCall(text, path, save, format, organize_imports) ==
    /\ runs' = runs + 1
    /\ kind' = "update_buffer"
    /\ args' = NoArgs
    /\ owning_data' = NoFileData
    /\ inverse_data' = NoFileData
    /\ field_template' = <<>>
    /\ ub' = [NoFrame EXCEPT !.side = "direct", !.buffer_path = path,
                             !.updated_buffer_tree = convert_buffer_to_tree(text),
                             !.save = save, !.format = format,
                             !.organize_imports = organize_imports]
    /\ disk0' = disk
    /\ effects' = <<>>
    /\ steps' = <<>>
    /\ failure' = ""
    /\ pc' = "persist"
    /\ UNCHANGED <<importing_list, disk, editor, call, ret>>

\* create_*: field_template = self.generate_..._template(owning side)
BuildOwningFragment ==
    /\ pc = "build_owning"
    /\ LET t == OwningTemplate(kind, owning_data,
                               inverse_data, args)
       IN  /\ field_template' = t.out
           /\ importing_list' = add_to_importing_list(importing_list, t.imports)
    /\ steps' = Append(steps, "BuildOwningFragment")
    /\ pc' = "update_owning"
    /\ UNCHANGED <<kind, args, owning_data, inverse_data,
                   ub, disk, disk0, editor, effects, failure, runs, call, ret>>

\* create_*: field_template = self.generate_..._template(inverse side)
BuildInverseFragment ==
    /\ pc = "build_inverse"
    /\ LET t == InverseTemplate(kind, owning_data,
                                inverse_data, args)
       IN  /\ field_template' = t.out
           /\ importing_list' = add_to_importing_list(importing_list, t.imports)
    /\ steps' = Append(steps, "BuildInverseFragment")
    /\ pc' = "update_inverse"
    /\ UNCHANGED <<kind, args, owning_data, inverse_data,
                   ub, disk, disk0, editor, effects, failure, runs, call, ret>>

\* the tree update_buffer computes the insert byte on, were it the tree it
\* was given
OffsetTreeGiven(frame) == frame.buffer_tree

\* the tree update_buffer computes the insert byte on and splices into
OffsetTree(frame) == frame.updated_buffer_tree

\* update_buffer, were the tree it was given carried on without the
\* pending imports
MergeImportsSkipped ==
    /\ pc \in {"update_owning", "update_inverse"}
    /\ LET side == IF pc = "update_owning" THEN "owning" ELSE "inverse"
           fd == IF pc = "update_owning" THEN owning_data
                 ELSE inverse_data
       IN  /\ ub' = [NoFrame EXCEPT
                        !.side = side, !.buffer_tree = fd.tree,
                        !.buffer_path = fd.path, !.template = field_template,
                        !.updated_buffer_tree = fd.tree,
                        !.save = TRUE]
           /\ steps' = steps \o <<IF side = "owning" THEN "UpdateOwningFile"
                                  ELSE "UpdateInverseFile", "mergeImports">>
    /\ pc' = "offset"
    /\ UNCHANGED <<kind, args, owning_data, inverse_data,
                   field_template, importing_list, disk, disk0, editor,
                   effects, failure, runs, call, ret>>

\* update_buffer is entered with the side's tree, path and the template;
\* updated_buffer_tree = add_imports_to_file_tree(buffer_tree)
MergeImports ==
    /\ pc \in {"update_owning", "update_inverse"}
    /\ LET side == IF pc = "update_owning" THEN "owning" ELSE "inverse"
           fd == IF pc = "update_owning" THEN owning_data
                 ELSE inverse_data
       IN  /\ ub' = [NoFrame EXCEPT
                        !.side = side, !.buffer_tree = fd.tree,
                        !.buffer_path = fd.path, !.template = field_template,
                        !.updated_buffer_tree =
                            add_imports_to_file_tree(fd.tree, importing_list),
                        !.save = TRUE]
           /\ steps' = steps \o <<IF side = "owning" THEN "UpdateOwningFile"
                                  ELSE "UpdateInverseFile", "mergeImports">>
    /\ pc' = "offset"
    /\ UNCHANGED <<kind, args, owning_data, inverse_data,
                   field_template, importing_list, disk, disk0, editor,
                   effects, failure, runs, call, ret>>

\* insert_byte = get_entity_field_insert_byte(updated_buffer_tree);
\* if not insert_byte: raise ValueError
FieldInsertOffset ==
    /\ pc = "offset"
    /\ LET insert_byte == get_entity_field_insert_byte(OffsetTree(ub))
       IN  /\ ub' = [ub EXCEPT !.insert_byte = insert_byte]
           /\ IF IsNone(insert_byte) \/ insert_byte = Some(0)
              THEN Failed(ub.side, "Unable to get field insert position")
              ELSE pc' = "splice" /\ failure' = failure
    /\ steps' = Append(steps, "fieldInsertOffset")
    /\ UNCHANGED <<kind, args, owning_data, inverse_data,
                   field_template, importing_list, disk, disk0, editor,
                   effects, runs, call, ret>>

\* updated_buffer_tree = insert_code_at_position(template, insert_byte,
\*                                               updated_buffer_tree)
SpliceAndReparse ==
    /\ pc = "splice"
    /\ LET t == insert_code_into_position(OffsetTree(ub), ub.template,
                                          ub.insert_byte[1])
       IN  IF IsNone(t)
           THEN /\ Failed(ub.side, "Unable to convert root node's text to bytes")
                /\ ub' = ub
           ELSE /\ ub' = [ub EXCEPT !.updated_buffer_tree = t[1]]
                /\ pc' = "persist"
                /\ failure' = failure
    /\ steps' = Append(steps, "spliceAndReparse")
    /\ UNCHANGED <<kind, args, owning_data, inverse_data,
                   field_template, importing_list, disk, disk0, editor,
                   effects, runs, call, ret>>

\* what a write_bytes that raises OSError can leave in the file: the old
\* bytes (the open failed) or none (opened and truncated, then failed)
FailedWriteLeaves(old) == {old, <<>>}

\* TreesitterUtils.update_buffer with the test of the root text made after
\* the write instead of before it
WriteOutcomesCheckedLate(node_text, old) ==
    IF node_text = <<>>
    THEN {[left |-> node_text, op |-> "write",
           raised |-> "Root node doesn't have text"]}
    ELSE {[left |-> node_text, op |-> "write", raised |-> ""]}
         \cup {[left |-> l, op |-> "write_failed", raised |-> "OSError"] :
                   l \in FailedWriteLeaves(old)}

\* TreesitterUtils.update_buffer from `if not node_text: raise` to
\* buffer_path.write_bytes(node_text): what is left in the file, what was
\* done to it and what was raised
WriteOutcomes(node_text, old) ==
    IF node_text = <<>>
    THEN {[left |-> old, op |-> "none",
           raised |-> "Root node doesn't have text"]}
    ELSE {[left |-> node_text, op |-> "write", raised |-> ""]}
         \cup {[left |-> l, op |-> "write_failed", raised |-> "OSError"] :
                   l \in FailedWriteLeaves(old)}

WriteBytes ==
    /\ pc = "persist"
    /\ LET node_text == ub.updated_buffer_tree.text
       IN  \E w \in WriteOutcomes(node_text, disk[ub.buffer_path]) :
              /\ disk' = [disk EXCEPT ![ub.buffer_path] = w.left]
              /\ effects' = IF w.op = "none" THEN effects
                            ELSE Append(effects, Effect(w.op, ub.buffer_path,
                                                        ub.side, node_text))
              /\ IF w.raised # "" THEN Failed(ub.side, w.raised)
                 ELSE pc' = "reload" /\ failure' = failure
    /\ steps' = Append(steps, "persist")
    /\ UNCHANGED <<kind, args, owning_data, inverse_data,
                   field_template, importing_list, ub, disk0, editor, runs,
                   call, ret>>

\* self.nvim.command(f"e {buffer_path}"): the editor loads the file, or the
\* command raises
NvimEdit ==
    /\ pc = "reload"
    /\ effects' = Append(effects, Effect("e", ub.buffer_path, ub.side, <<>>))
    /\ \/ /\ editor' = [editor EXCEPT ![ub.buffer_path] = disk[ub.buffer_path]]
          /\ Goto(PersistNext("reload", ub))
          /\ failure' = failure
       \/ /\ Failed(ub.side, "NvimError")
          /\ UNCHANGED <<editor, steps>>
    /\ UNCHANGED <<kind, args, owning_data, inverse_data,
                   field_template, importing_list, ub, disk, disk0, runs,
                   call, ret>>

\* if save: self.nvim.command(f"w {buffer_path}"): the editor writes its
\* buffer to the file, or the command raises
NvimWrite ==
    /\ pc = "save"
    /\ effects' = Append(effects, Effect("w", ub.buffer_path, ub.side, <<>>))
    /\ \/ /\ disk' = [disk EXCEPT ![ub.buffer_path] = editor[ub.buffer_path]]
          /\ Goto(PersistNext("save", ub))
          /\ failure' = failure
       \/ /\ Failed(ub.side, "NvimError")
          /\ UNCHANGED <<disk, steps>>
    /\ UNCHANGED <<kind, args, owning_data, inverse_data,
                   field_template, importing_list, ub, disk0, editor, runs,
                   call, ret>>

\* if organize_imports: self.nvim.command("lua require('jdtls')...")
NvimOrganizeImports ==
    /\ pc = "organize"
    /\ effects' = Append(effects, Effect("organize_imports", "", ub.side, <<>>))
    /\ \/ Goto(PersistNext("organize", ub)) /\ failure' = failure
       \/ Failed(ub.side, "NvimError") /\ steps' = steps
    /\ UNCHANGED <<kind, args, owning_data, inverse_data,
                   field_template, importing_list, ub, disk, disk0, editor,
                   runs, call, ret>>

\* if format and not save: self.nvim.command("lua vim.lsp.buf.format(...)")
NvimFormat ==
    /\ pc = "format"
    /\ effects' = Append(effects, Effect("format", "", ub.side, <<>>))
    /\ \/ Goto(PersistNext("format", ub)) /\ failure' = failure
       \/ Failed(ub.side, "NvimError") /\ steps' = steps
    /\ UNCHANGED <<kind, args, owning_data, inverse_data,
                   field_template, importing_list, ub, disk, disk0, editor,
                   runs, call, ret>>

-----------------------------------------------------------------------------
(* The specification of the commands *)

\* the trees TreesitterUtils.update_buffer is called with on its own
DirectTexts == {<<>>, <<"class ", "X", "{", "}">>}

Init ==
    /\ pc = "idle"
    /\ kind = ""
    /\ args = NoArgs
    /\ owning_data = NoFileData
    /\ inverse_data = NoFileData
    /\ field_template = <<>>
    /\ importing_list = <<>>
    /\ ub = NoFrame
    /\ disk \in [Paths -> UNION {InitialTexts(p) : p \in Paths}]
    /\ \A p \in Paths : disk[p] \in InitialTexts(p)
    /\ disk0 = disk
    /\ editor = disk
    /\ effects = <<>>
    /\ steps = <<>>
    /\ failure = ""
    /\ runs = 0
    /\ call = <<>>
    /\ ret = <<>>

\* the host runs one command at a time, to its end
Invoke ==
    /\ pc \in {"idle", "done", "failed"}
    /\ runs < MaxRuns
    /\ \E k \in Kinds, o \in Paths, i \in Paths :
          \E a \in ArgsOf(k) : Create(k, o, i, a)

InvokeUpdateBuffer ==
    /\ pc \in {"idle", "done", "failed"}
    /\ runs < MaxRuns
    /\ \E t \in DirectTexts, p \in Paths, sv \in BOOLEAN, f \in BOOLEAN,
          oi \in BOOLEAN : UpdateBufferCall(t, p, sv, f, oi)

Next ==
    \/ Invoke
    \/ InvokeUpdateBuffer
    \/ BuildOwningFragment
    \/ MergeImports
    \/ FieldInsertOffset
    \/ SpliceAndReparse
    \/ WriteBytes
    \/ NvimEdit
    \/ NvimWrite
    \/ NvimOrganizeImports
    \/ NvimFormat
    \/ BuildInverseFragment

Spec == Init /\ [][Next]_vars

-----------------------------------------------------------------------------
(* The specification of repeated many-to-many commands: the host runs one   *)
(* create_many_to_many_relationship_field after another on the same files,  *)
(* each on records read from the files as they then are.                    *)

MaxInvocations == 2

\* the arguments of the repeated commands
RepeatedArgs ==
    {[NoArgs EXCEPT !.mapping_type_enum = m, !.inverse_side_other_enum = io] :
        m \in {"UNIDIRECTIONAL_JOIN_COLUMN", "BIDIRECTIONAL_JOIN_TABLE"},
        io \in {{}, {"EQUALS_HASHCODE"}}}

InvokeManyToMany ==
    /\ pc \in {"idle", "done", "failed"}
    /\ runs < MaxInvocations
    /\ \E o \in Paths, i \in Paths :
          \E a \in RepeatedArgs : Create("many_to_many", o, i, a)

RepeatedNext ==
    \/ InvokeManyToMany
    \/ BuildOwningFragment
    \/ MergeImports
    \/ FieldInsertOffset
    \/ SpliceAndReparse
    \/ WriteBytes
    \/ NvimEdit
    \/ NvimWrite
    \/ BuildInverseFragment

RepeatedSpec == Init /\ [][RepeatedNext]_vars

-----------------------------------------------------------------------------
(* The specification of the generators: one call of a generator method on   *)
(* arguments drawn from its domain, and what it returns.                    *)

\* the calls of process_cascades_params
CascadeCalls ==
    {[fn |-> "process_cascades_params", cascades |-> c, debug |-> d] :
        c \in [1..5 -> BOOLEAN], d \in BOOLEAN}

\* a method declaration of a class body
MethodText(name) == <<"\n", "public ", "int ", name, "(", ")", "{", "}">>

\* a Java file whose public class declares equals and hashCode or not; with
\* `elsewhere`, a second class, not public, declares both
ClassText(has_equals, has_hashcode, elsewhere) ==
    <<"package ", "com.example.customers", ";", "\n", "public", " ",
      "class ", "Customer", "{">>
    \o MethodText("getId")
    \o (IF has_equals THEN MethodText("equals") ELSE <<>>)
    \o (IF has_hashcode THEN MethodText("hashCode") ELSE <<>>)
    \o <<"}">>
    \o (IF elsewhere
        THEN <<"\n", "class ", "Helper", "{">> \o MethodText("equals")
             \o MethodText("hashCode") \o <<"}">>
        ELSE <<>>)

\* the calls of generate_equals_hashcode_methods
EqualsHashcodeCalls ==
    {[fn |-> "generate_equals_hashcode_methods", field_type |-> FileNameOf(p),
      file_tree |-> convert_buffer_to_tree(ClassText(e, h, x)), debug |-> d] :
        p \in Paths, e \in BOOLEAN, h \in BOOLEAN, x \in BOOLEAN,
        d \in BOOLEAN}

\* the calls of generate_many_to_one_template
ManyToOneCalls ==
    {[fn |-> "generate_many_to_one_template",
      inverse_side_file_data |-> JavaFileDataOf(p, EntityText(p)),
      fetch_type |-> f, cascades |-> c, mandatory |-> m, unique |-> u] :
        p \in Paths, f \in {FetchNone, FetchEager, FetchLazy},
        c \in [1..5 -> BOOLEAN], m \in BOOLEAN, u \in BOOLEAN}

\* the calls of generate_one_to_many_template
OneToManyCalls ==
    {[fn |-> "generate_one_to_many_template",
      owning_side_file_data |-> JavaFileDataOf(p, EntityText(p)),
      inverse_side_file_data |-> JavaFileDataOf(q, EntityText(q)),
      cascades |-> c, orphan_removal |-> o, collection_type |-> t] :
        p \in Paths, q \in Paths, c \in [1..5 -> BOOLEAN], o \in BOOLEAN,
        t \in {CollectionList, CollectionSet}}

MaxAccents == 2

\* a Java file with a comment of n two-byte characters before its class
AccentedText(n) ==
    <<"// ", "caf">> \o [i \in 1..n |-> "<e-acute>"] \o <<"\n">>
    \o EntityText("Customer.java")

\* the calls of insert_code_into_position: the position is the byte the
\* locator gives for the tree
InsertCalls ==
    {[fn |-> "insert_code_into_position",
      tree |-> convert_buffer_to_tree(AccentedText(n)), code |-> f,
      insert_position |->
          get_entity_field_insert_byte(convert_buffer_to_tree(AccentedText(n)))[1]] :
        n \in 0..MaxAccents,
        f \in {<<"\n\t", "private ", "Order", " ", "order", ";", "\n">>,
               <<"\n\t", "// ", "<e-acute>", "\n">>}}

MaxName == 4

\* the sequences of at most n elements of S
SeqsUpTo(S, n) == UNION {[1..k -> S] : k \in 0..n}

\* class names: the two of the examples and every short name of two
\* upper-case and two lower-case letters
SnakeNames ==
    SeqsUpTo({"A", "B", "a", "b"}, MaxName)
    \cup {<<"U", "s", "e", "r", "P", "r", "o", "f", "i", "l", "e">>,
           <<"I", "D">>}

\* the calls of generate_snaked_field_name
SnakeCalls ==
    {[fn |-> "generate_snaked_field_name", field_name |-> n] : n \in SnakeNames}

MaxWord == 3

\* words of the letters the rules of pluralize look at, and two others
Words ==
    {w \in SeqsUpTo({"s", "h", "c", "x", "z", "y", "a", "f", "e", "B"}, MaxWord) :
        PluralizeDefined(w)}

\* the calls of pluralize
PluralizeCalls == {[fn |-> "pluralize", word |-> w] : w \in Words}

\* the calls of generate_field_name
FieldNameCalls ==
    {[fn |-> "generate_field_name", field_type |-> w, plural |-> p] :
        w \in Words, p \in BOOLEAN}

\* what stands before the class keyword of a declaration
Modifiers ==
    {<<>>,
     <<"public", " ">>,
     <<"@Entity", "\n", "public", " ">>,
     <<"@Entity", " ", "public", " ">>,
     <<"public", " ", "final", " ">>,
     <<"final", " ">>}

\* a Java file of two classes, the second nested in the first or after it;
\* the first declares getId, the second equals
JavaText(outer_modifiers, inner_modifiers, nested) ==
    LET inner == <<"\n">> \o inner_modifiers \o <<"class ", "Inner", "{">>
                 \o MethodText("equals") \o <<"}">>
    IN  outer_modifiers \o <<"class ", "Outer", "{">> \o MethodText("getId")
        \o (IF nested THEN inner ELSE <<>>) \o <<"}">>
        \o (IF nested THEN <<>> ELSE inner)

JavaTrees ==
    {convert_buffer_to_tree(JavaText(o, i, n)) :
        o \in Modifiers, i \in Modifiers, n \in BOOLEAN}

\* the calls of get_buffer_public_class_node_from_query_results, on the
\* matches of the class declaration query
PublicClassCalls ==
    {[fn |-> "get_buffer_public_class_node_from_query_results", tree |-> t,
      query_results |-> ClassDecls(t.text)] : t \in JavaTrees}

\* the calls of buffer_public_class_has_method
HasMethodCalls ==
    {[fn |-> "buffer_public_class_has_method", tree |-> t, method_name |-> m] :
        t \in JavaTrees, m \in {"equals", "getId", "get"}}

\* class names of one word, of two words and of upper-case letters only
ClassNames ==
    {FileNameOf(p) : p \in Paths}
    \cup {<<"U", "s", "e", "r", "P", "r", "o", "f", "i", "l", "e">>,
           <<"I", "D">>}

\* the calls of generate_join_table_body
JoinTableCalls ==
    {[fn |-> "generate_join_table_body", owning_side_field_type |-> o,
      inverse_side_field_type |-> i] : o \in ClassNames, i \in ClassNames}

\* the calls of generate_many_to_many_annotation_body
ManyToManyBodyCalls ==
    {[fn |-> "generate_many_to_many_annotation_body", cascades |-> c,
      mapped_by |-> m] :
        c \in [1..4 -> BOOLEAN],
        m \in {None} \cup {Some(n) : n \in ClassNames}}

\* the calls of add_imports_to_buffer; import_list is the caller's list of
\* pending imports, passed by reference
AddImportsCalls ==
    {[fn |-> "add_imports_to_buffer", import_list |-> l,
      buffer_bytes |-> EntityText(p)] :
        l \in {<<>>, <<"java.util.List">>,
               <<"java.util.Set", "java.util.List">>},
        p \in Paths}

GenCalls ==
    AddImportsCalls \cup ManyToManyBodyCalls \cup JoinTableCalls \cup HasMethodCalls \cup CascadeCalls \cup EqualsHashcodeCalls \cup ManyToOneCalls
    \cup OneToManyCalls \cup InsertCalls \cup SnakeCalls
    \cup PluralizeCalls \cup FieldNameCalls \cup PublicClassCalls

GenInit ==
    /\ call \in GenCalls
    /\ ret = <<>>
    /\ pc = "idle"
    /\ kind = ""
    /\ args = NoArgs
    /\ owning_data = NoFileData
    /\ inverse_data = NoFileData
    /\ field_template = <<>>
    /\ importing_list = IF call.fn = "add_imports_to_buffer"
                        THEN call.import_list ELSE <<>>
    /\ ub = NoFrame
    /\ disk = [p \in Paths |-> EntityText(p)]
    /\ disk0 = disk
    /\ editor = disk
    /\ effects = <<>>
    /\ steps = <<>>
    /\ failure = ""
    /\ runs = 0

\* process_cascades_params runs on the arguments of the call and returns;
\* debug only logs
CallProcessCascadesParams ==
    /\ ret = <<>>
    /\ call.fn = "process_cascades_params"
    /\ LET c == call.cascades
           r == process_cascades_params(c[1], c[2], c[3], c[4], c[5])
       IN  /\ ret' = Some(r)
           /\ importing_list' = add_to_importing_list(importing_list,
                                                      r.imports)
    /\ UNCHANGED <<pc, kind, args, owning_data, inverse_data, field_template,
                   ub, disk, disk0, editor, effects, steps, failure, runs,
                   call>>

\* generate_equals_hashcode_methods runs on the arguments of the call
CallGenerateEqualsHashcodeMethods ==
    /\ ret = <<>>
    /\ call.fn = "generate_equals_hashcode_methods"
    /\ LET r == generate_equals_hashcode_methods(call.field_type,
                                                 call.file_tree)
       IN  /\ ret' = Some(r)
           /\ importing_list' = add_to_importing_list(importing_list,
                                                      r.imports)
    /\ UNCHANGED <<pc, kind, args, owning_data, inverse_data, field_template,
                   ub, disk, disk0, editor, effects, steps, failure, runs,
                   call>>

\* generate_many_to_one_template runs on the arguments of the call
CallGenerateManyToOneTemplate ==
    /\ ret = <<>>
    /\ call.fn = "generate_many_to_one_template"
    /\ LET c == call.cascades
           r == generate_many_to_one_template(
                    call.inverse_side_file_data, call.fetch_type, c[1], c[2],
                    c[3], c[4], c[5], call.mandatory, call.unique)
       IN  /\ ret' = Some(r)
           /\ importing_list' = add_to_importing_list(importing_list,
                                                      r.imports)
    /\ UNCHANGED <<pc, kind, args, owning_data, inverse_data, field_template,
                   ub, disk, disk0, editor, effects, steps, failure, runs,
                   call>>

\* generate_one_to_many_template runs on the arguments of the call
CallGenerateOneToManyTemplate ==
    /\ ret = <<>>
    /\ call.fn = "generate_one_to_many_template"
    /\ LET c == call.cascades
           r == generate_one_to_many_template(
                    call.owning_side_file_data, call.inverse_side_file_data,
                    c[1], c[2], c[3], c[4], c[5], call.orphan_removal,
                    call.collection_type)
       IN  /\ ret' = Some(r)
           /\ importing_list' = add_to_importing_list(importing_list,
                                                      r.imports)
    /\ UNCHANGED <<pc, kind, args, owning_data, inverse_data, field_template,
                   ub, disk, disk0, editor, effects, steps, failure, runs,
                   call>>

\* insert_code_into_position runs on the arguments of the call; it declares
\* no import
CallInsertCodeIntoPosition ==
    /\ ret = <<>>
    /\ call.fn = "insert_code_into_position"
    /\ ret' = Some([out |-> insert_code_into_position(
                                call.tree, call.code, call.insert_position),
                    imports |-> <<>>])
    /\ UNCHANGED <<pc, kind, args, owning_data, inverse_data, field_template,
                   importing_list, ub, disk, disk0, editor, effects, steps,
                   failure, runs, call>>

\* a method that declares no import returns r
Returns(r) ==
    /\ ret' = Some([out |-> r, imports |-> <<>>])
    /\ UNCHANGED <<pc, kind, args, owning_data, inverse_data, field_template,
                   importing_list, ub, disk, disk0, editor, effects, steps,
                   failure, runs, call>>

CallGenerateSnakedFieldName ==
    /\ ret = <<>>
    /\ call.fn = "generate_snaked_field_name"
    /\ Returns(generate_snaked_field_name(call.field_name))

CallPluralize ==
    /\ ret = <<>>
    /\ call.fn = "pluralize"
    /\ Returns(pluralize(call.word))

CallGenerateFieldName ==
    /\ ret = <<>>
    /\ call.fn = "generate_field_name"
    /\ Returns(generate_field_name(call.field_type, call.plural))

CallGetBufferPublicClassNode ==
    /\ ret = <<>>
    /\ call.fn = "get_buffer_public_class_node_from_query_results"
    /\ Returns(get_buffer_public_class_node_from_query_results(
                   call.tree.text, call.query_results))

CallBufferPublicClassHasMethod ==
    /\ ret = <<>>
    /\ call.fn = "buffer_public_class_has_method"
    /\ Returns(buffer_public_class_has_method(call.tree, call.method_name))

CallGenerateJoinTableBody ==
    /\ ret = <<>>
    /\ call.fn = "generate_join_table_body"
    /\ LET r == generate_join_table_body(call.owning_side_field_type,
                                         call.inverse_side_field_type)
       IN  /\ ret' = Some(r)
           /\ importing_list' = add_to_importing_list(importing_list,
                                                      r.imports)
    /\ UNCHANGED <<pc, kind, args, owning_data, inverse_data, field_template,
                   ub, disk, disk0, editor, effects, steps, failure, runs,
                   call>>

CallGenerateManyToManyAnnotationBody ==
    /\ ret = <<>>
    /\ call.fn = "generate_many_to_many_annotation_body"
    /\ LET c == call.cascades
           r == generate_many_to_many_annotation_body(
                    c[1], c[2], c[3], c[4], call.mapped_by)
       IN  /\ ret' = Some(r)
           /\ importing_list' = add_to_importing_list(importing_list,
                                                      r.imports)
    /\ UNCHANGED <<pc, kind, args, owning_data, inverse_data, field_template,
                   ub, disk, disk0, editor, effects, steps, failure, runs,
                   call>>

\* the caller's list, were `import_list.clear()` the statement after the
\* merge
CallersListCleared(callers_list) == <<>>

\* the caller's list after `import_list = []`, which binds the local name to
\* a new list
CallersListAfterRebinding(callers_list) == callers_list

\* CommonHelper.add_imports_to_buffer
CallAddImportsToBuffer ==
    /\ ret = <<>>
    /\ call.fn = "add_imports_to_buffer"
    /\ LET updated_buffer_bytes ==
               add_imports_to_file_tree(
                   convert_buffer_to_tree(call.buffer_bytes),
                   importing_list).text
       IN  ret' = Some([out |-> updated_buffer_bytes, imports |-> <<>>])
    /\ importing_list' = CallersListAfterRebinding(importing_list)
    /\ UNCHANGED <<pc, kind, args, owning_data, inverse_data, field_template,
                   ub, disk, disk0, editor, effects, steps, failure, runs,
                   call>>

GenNext ==
    \/ CallAddImportsToBuffer
    \/ CallGenerateManyToManyAnnotationBody
    \/ CallGenerateJoinTableBody
    \/ CallBufferPublicClassHasMethod
    \/ CallGetBufferPublicClassNode
    \/ CallGenerateSnakedFieldName
    \/ CallPluralize
    \/ CallGenerateFieldName
    \/ CallInsertCodeIntoPosition
    \/ CallProcessCascadesParams
    \/ CallGenerateEqualsHashcodeMethods
    \/ CallGenerateManyToOneTemplate
    \/ CallGenerateOneToManyTemplate

GenSpec == GenInit /\ [][GenNext]_vars

-----------------------------------------------------------------------------
(* What the properties read off a state *)

IsPrefix(s, t) ==
    Len(s) <= Len(t) /\ \A i \in 1..Len(s) : s[i] = t[i]

\* the effects done for one side, and their operations in order
SideEffects(side) == SelectSeq(effects, LAMBDA e : e.side = side)

Ops(es) == [i \in 1..Len(es) |-> es[i].op]

\* the steps of the command, without those inside update_buffer
CommandSteps ==
    SelectSeq(steps, LAMBDA x : x \in {"BuildOwningFragment",
        "UpdateOwningFile", "BuildInverseFragment", "UpdateInverseFile",
        "Done"})

\* the steps taken inside the update_buffer call under way or last made
UpdateSteps ==
    LET marks == {i \in 1..Len(steps) :
                     steps[i] \in {"UpdateOwningFile", "UpdateInverseFile"}}
        from == IF marks = {} THEN 0
                ELSE CHOOSE i \in marks : \A j \in marks : j <= i
    IN  SelectSeq(SubSeq(steps, from + 1, Len(steps)),
                  LAMBDA x : x \in {"mergeImports", "fieldInsertOffset",
                                    "spliceAndReparse", "persist"})

\* the mapping types for which the spec has each kind write an inverse side
InverseExpected ==
    IF kind = "many_to_one"
    THEN args.mapping_type_enum = "BIDIRECTIONAL_JOIN_COLUMN"
    ELSE args.mapping_type_enum # "UNIDIRECTIONAL_JOIN_COLUMN"

\* the command is inside an update_buffer call
InUpdate ==
    pc \in {"offset", "splice", "persist", "reload", "save", "organize",
            "format"}

\* the failures raised before write_bytes is reached
PreWriteFailures ==
    {"Unable to get field insert position",
     "Unable to convert root node's text to bytes",
     "Root node doesn't have text"}

-----------------------------------------------------------------------------
(* C1 *)

C1_Order ==
    kind \in Kinds =>
        /\ \/ IsPrefix(CommandSteps,
                       <<"BuildOwningFragment", "UpdateOwningFile",
                         "BuildInverseFragment", "UpdateInverseFile", "Done">>)
           \/ CommandSteps = <<"BuildOwningFragment", "UpdateOwningFile",
                               "Done">>
        /\ Has(steps, "BuildInverseFragment") =>
               /\ InverseExpected
               /\ Ops(SideEffects("owning")) = <<"write", "e", "w">>
        /\ failure # "" => pc = "failed"
        /\ pc = "failed" => failure # "" /\ ~Has(steps, "Done")
        /\ pc = "done" =>
               /\ Has(steps, "Done")
               /\ InverseExpected => Has(steps, "UpdateInverseFile")

C1_Halts ==
    [][pc = "failed" =>
          \/ runs' # runs
          \/ steps' = steps /\ effects' = effects /\ disk' = disk]_vars

\* C1: in each create_*_relationship_field the steps come in the order build
\* owning fragment, update owning file, then, only when the mapping calls for
\* an inverse side, build inverse fragment, update inverse file, Done; the
\* inverse fragment is built only once the owning update has completed (its
\* write, reload and save are done), and a failure leaves the command failed
\* with no later step, effect or write.
C1_StepOrder == []C1_Order /\ C1_Halts

\* a two-sided command has run all five steps
C1_Witness ==
    /\ kind \in Kinds
    /\ pc = "done"
    /\ CommandSteps = <<"BuildOwningFragment", "UpdateOwningFile",
                        "BuildInverseFragment", "UpdateInverseFile", "Done">>

-----------------------------------------------------------------------------
(* C2 *)

\* the tree add_imports_to_file_tree makes of the tree update_buffer was given
MergedTree == add_imports_to_file_tree(ub.buffer_tree, importing_list)

\* C2: inside one update_buffer call the steps run in the order mergeImports,
\* fieldInsertOffset, spliceAndReparse, persist; the insert offset is the one
\* of the import-merged tree (not of the tree passed in), the fragment is
\* spliced into that import-merged tree at that offset, and the spliced tree
\* is the one written.
C2_StepFeed ==
    (kind \in Kinds /\ InUpdate) =>
        /\ IsPrefix(UpdateSteps, <<"mergeImports", "fieldInsertOffset",
                                   "spliceAndReparse", "persist">>)
        /\ Has(UpdateSteps, "mergeImports")
        /\ pc = "offset" => ub.updated_buffer_tree = MergedTree
        /\ pc = "splice" =>
               /\ Has(UpdateSteps, "fieldInsertOffset")
               /\ ub.updated_buffer_tree = MergedTree
               /\ ub.insert_byte = get_entity_field_insert_byte(MergedTree)
        /\ pc \in {"persist", "reload", "save"} =>
               /\ Has(UpdateSteps, "spliceAndReparse")
               /\ ub.insert_byte = get_entity_field_insert_byte(MergedTree)
               /\ Some(ub.updated_buffer_tree) =
                      insert_code_into_position(MergedTree, ub.template,
                                                ub.insert_byte[1])
        /\ \A i \in 1..Len(effects) :
               (effects[i].side = ub.side /\ effects[i].op = "write") =>
                   /\ Has(UpdateSteps, "persist")
                   /\ effects[i].text = ub.updated_buffer_tree.text

\* an update has written a file to which imports were added
C2_Witness ==
    /\ kind \in Kinds
    /\ pc = "reload"
    /\ MergedTree # ub.buffer_tree
    /\ get_entity_field_insert_byte(MergedTree)
           # get_entity_field_insert_byte(ub.buffer_tree)

-----------------------------------------------------------------------------
(* C3 *)

\* the bytes the file of the update under way (or last made) held when that
\* update_buffer call was entered
EntryBytes ==
    IF ub.side = "inverse" /\ ub.buffer_path = owning_data.path
    THEN SideEffects("owning")[1].text
    ELSE disk0[ub.buffer_path]

\* C3 as the spec states it: whenever a step of update_buffer fails, the file
\* holds the bytes it held when the call began and no write or editor command
\* was issued for it.
C3_AnyFailureLeavesFile ==
    pc = "failed" =>
        /\ disk[ub.buffer_path] = EntryBytes
        /\ \A i \in 1..Len(effects) :
               effects[i].side = ub.side =>
                   effects[i].op \notin {"write", "e", "w"}

\* C3, amended: when update_buffer fails before write_bytes is reached (no
\* insert offset, no spliced tree, no root text), the file holds the bytes it
\* held when the call began and no write or editor command was issued for it.
C3_FailureBeforeWriteLeavesFile ==
    (pc = "failed" /\ failure \in PreWriteFailures) =>
        /\ disk[ub.buffer_path] = EntryBytes
        /\ SideEffects(ub.side) = <<>>

\* an update has failed for want of an insert offset
C3_Witness ==
    /\ kind \in Kinds
    /\ pc = "failed"
    /\ failure = "Unable to get field insert position"
    /\ IsNone(get_buffer_public_class_node_from_query_results(
                  ub.buffer_tree.text, ClassDecls(ub.buffer_tree.text)))

-----------------------------------------------------------------------------
(* C4 *)

\* C4: once an update_buffer call has returned, the tree held in the record
\* of the file it updated has the text of the bytes on disk at the file's
\* path.
C4_TreeInSync ==
    kind \in Kinds =>
        /\ pc = "build_inverse" =>
               owning_data.tree.text = disk[owning_data.path]
        /\ (pc = "done" /\ ub.side = "owning") =>
               owning_data.tree.text = disk[owning_data.path]
        /\ (pc = "done" /\ ub.side = "inverse") =>
               inverse_data.tree.text = disk[inverse_data.path]

-----------------------------------------------------------------------------
(* C5 *)

\* the write and the reload and save commands done for the side of the frame
FileOps ==
    SelectSeq(Ops(SideEffects(ub.side)),
              LAMBDA o : o \in {"write", "write_failed", "e", "w"})

\* C5: TreesitterUtils.update_buffer writes the full text of the tree to the
\* path, then sends `e path`, then `w path` only if save was asked for; no
\* editor command comes before the write has completed, and none is sent
\* when the root text is absent or the write fails.
C5_PersistOrder ==
    ub.side # "" =>
        LET es == SideEffects(ub.side) IN
        /\ \/ IsPrefix(FileOps, <<"write", "e", "w">>)
           \/ FileOps = <<"write_failed">>
        /\ Has(FileOps, "w") => ub.save
        /\ es # <<>> =>
               /\ es[1].op \in {"write", "write_failed"}
               /\ es[1].text = ub.updated_buffer_tree.text
               /\ es[1].path = ub.buffer_path
        /\ \A i \in 1..Len(es) :
               es[i].op \in {"e", "w"} => es[i].path = ub.buffer_path
        /\ Has(FileOps, "write_failed") => Len(es) = 1 /\ pc = "failed"
        /\ ub.updated_buffer_tree.text = <<>> => es = <<>>
        /\ pc \in {"done", "build_inverse", "update_inverse"} =>
               FileOps = IF ub.save THEN <<"write", "e", "w">>
                         ELSE <<"write", "e">>

\* update_buffer called with save set has written, reloaded and saved
C5_Witness ==
    /\ kind = "update_buffer"
    /\ pc = "done"
    /\ ub.save
    /\ Ops(effects) = <<"write", "e", "w">>
    /\ disk[ub.buffer_path] = ub.updated_buffer_tree.text

-----------------------------------------------------------------------------
(* C6 *)

\* the annotation of the owning side's field of each kind
OwningAnnotation ==
    IF kind = "many_to_one" THEN "@ManyToOne"
    ELSE IF kind = "one_to_one" THEN "@OneToOne" ELSE "@ManyToMany"

\* the owning file holds what its update wrote, with the new field; the
\* inverse file holds what it held when its update began; nothing was done
\* to the owning file after its update
OwningKeptInverseUntouched ==
    /\ Ops(SideEffects("owning")) = <<"write", "e", "w">>
    /\ disk[owning_data.path] = SideEffects("owning")[1].text
    /\ Has(disk[owning_data.path], OwningAnnotation)
    /\ disk[inverse_data.path] = EntryBytes

\* C6 as the spec states it: when the owning update has succeeded and the
\* inverse update fails, the owning file is as its update wrote it and the
\* inverse file is unchanged.
C6_InverseFailureLeavesInverse ==
    (kind \in Kinds /\ pc = "failed" /\ ub.side = "inverse") =>
        OwningKeptInverseUntouched

\* C6, amended: when the owning update has succeeded and the inverse update
\* fails before its write_bytes is reached, the command ends failed, with no
\* retry or compensation, the owning file as its update wrote it (new field
\* present) and the inverse file unchanged and never written.
C6_InverseFailureBeforeWrite ==
    (kind \in Kinds /\ ub.side = "inverse" /\ failure \in PreWriteFailures) =>
        /\ pc = "failed"
        /\ OwningKeptInverseUntouched
        /\ SideEffects("inverse") = <<>>
        /\ Len(SelectSeq(steps, LAMBDA x : x = "UpdateInverseFile")) = 1

\* the inverse update of a two-file command has failed for want of an
\* insert offset
C6_Witness ==
    /\ kind \in Kinds
    /\ pc = "failed"
    /\ ub.side = "inverse"
    /\ owning_data.path # inverse_data.path
    /\ failure = "Unable to get field insert position"

-----------------------------------------------------------------------------
(* C7, C8, C9 *)

\* the file of a side was written by the command
Written(side) ==
    \E i \in 1..Len(effects) :
        effects[i].side = side /\ effects[i].op = "write"

\* every text written to the file of a side holds the token
EveryWriteHas(side, tok) ==
    \A i \in 1..Len(effects) :
        (effects[i].side = side /\ effects[i].op = "write") =>
            Has(effects[i].text, tok)

\* the fragment declares a field of the class
TypedWith(fragment, file_name) ==
    \E i \in 1..(Len(fragment) - 1) :
        fragment[i] = "private " /\ fragment[i + 1] = Render(file_name)

\* the fragment declares a collection of the class
CollectionOf(fragment, file_name) ==
    \E i \in 1..(Len(fragment) - 1) :
        fragment[i] = "<" /\ fragment[i + 1] = Render(file_name)

\* C7: in many-to-one creation the owning file gets a many-to-one field for
\* every mapping type; the inverse side is built and its file written, with
\* a one-to-many collection field, if and only if the mapping type is
\* BIDIRECTIONAL_JOIN_COLUMN; for every other mapping type nothing is done
\* to the inverse file.
C7_ManyToOneSides ==
    kind = "many_to_one" =>
        LET bidirectional ==
                args.mapping_type_enum = "BIDIRECTIONAL_JOIN_COLUMN"
        IN
        /\ pc = "update_owning" =>
               /\ Has(field_template, "@ManyToOne")
               /\ TypedWith(field_template, inverse_data.file_name)
        /\ EveryWriteHas("owning", "@ManyToOne")
        /\ pc = "done" => Written("owning")
        /\ (pc = "done" /\ bidirectional) => Written("inverse")
        /\ ~bidirectional =>
               /\ SideEffects("inverse") = <<>>
               /\ ~Has(steps, "BuildInverseFragment")
               /\ pc \notin {"build_inverse", "update_inverse"}
        /\ pc = "update_inverse" =>
               /\ Has(field_template, "@OneToMany")
               /\ CollectionOf(field_template, owning_data.file_name)
        /\ EveryWriteHas("inverse", "@OneToMany")

\* a many-to-one command has written both files
C7_Witness ==
    /\ kind = "many_to_one"
    /\ pc = "done"
    /\ args.mapping_type_enum = "BIDIRECTIONAL_JOIN_COLUMN"
    /\ Written("owning") /\ Written("inverse")

\* C8: in one-to-one creation the owning file gets a one-to-one field with
\* a @JoinColumn and no mappedBy; the inverse side is built and its file
\* written if and only if the mapping type is not
\* UNIDIRECTIONAL_JOIN_COLUMN, and the inverse fragment has mappedBy, is
\* typed with the owning class and has no @JoinColumn.
C8_OneToOneSides ==
    kind = "one_to_one" =>
        LET unidirectional ==
                args.mapping_type_enum = "UNIDIRECTIONAL_JOIN_COLUMN"
        IN
        /\ pc = "update_owning" =>
               /\ Has(field_template, "@OneToOne")
               /\ Has(field_template, "@JoinColumn")
               /\ ~Has(field_template, "mappedBy = ")
        /\ EveryWriteHas("owning", "@OneToOne")
        /\ EveryWriteHas("owning", "@JoinColumn")
        /\ pc = "done" => Written("owning")
        /\ (pc = "done" /\ ~unidirectional) => Written("inverse")
        /\ unidirectional =>
               /\ SideEffects("inverse") = <<>>
               /\ ~Has(steps, "BuildInverseFragment")
               /\ pc \notin {"build_inverse", "update_inverse"}
        /\ pc = "update_inverse" =>
               /\ Has(field_template, "@OneToOne")
               /\ Has(field_template, "mappedBy = ")
               /\ TypedWith(field_template, owning_data.file_name)
               /\ ~Has(field_template, "@JoinColumn")
        /\ EveryWriteHas("inverse", "mappedBy = ")

\* a one-to-one command over a join table has written both files
C8_Witness ==
    /\ kind = "one_to_one"
    /\ pc = "done"
    /\ args.mapping_type_enum = "BIDIRECTIONAL_JOIN_TABLE"
    /\ owning_data.path # inverse_data.path
    /\ Written("owning") /\ Written("inverse")

\* the fragment holds an identity method
HasIdentityMethods(fragment) ==
    Has(fragment, "equals") \/ Has(fragment, "hashCode")

\* C9: in many-to-many creation the owning file gets the field with the
\* @JoinTable, without mappedBy and without identity methods; the inverse
\* side is built and its file written if and only if the mapping type is not
\* UNIDIRECTIONAL_JOIN_COLUMN, its fragment has mappedBy and no @JoinTable,
\* and identity methods are found only in the inverse fragment and only when
\* EQUALS_HASHCODE is among the inverse side's options (a file written by
\* the command holds identity methods only if the inverse fragment brought
\* them or the file held them before the command).
C9_ManyToManySides ==
    kind = "many_to_many" =>
        LET unidirectional ==
                args.mapping_type_enum = "UNIDIRECTIONAL_JOIN_COLUMN"
        IN
        /\ pc = "update_owning" =>
               /\ Has(field_template, "@ManyToMany")
               /\ Has(field_template, "@JoinTable")
               /\ ~Has(field_template, "mappedBy = ")
               /\ ~HasIdentityMethods(field_template)
        /\ EveryWriteHas("owning", "@JoinTable")
        /\ \A i \in 1..Len(effects) :
               (effects[i].side = "owning"
                   /\ HasIdentityMethods(effects[i].text)) =>
                      HasIdentityMethods(disk0[effects[i].path])
        /\ pc = "done" => Written("owning")
        /\ (pc = "done" /\ ~unidirectional) => Written("inverse")
        /\ unidirectional =>
               /\ SideEffects("inverse") = <<>>
               /\ ~Has(steps, "BuildInverseFragment")
               /\ pc \notin {"build_inverse", "update_inverse"}
        /\ pc = "update_inverse" =>
               /\ Has(field_template, "@ManyToMany")
               /\ Has(field_template, "mappedBy = ")
               /\ ~Has(field_template, "@JoinTable")
               /\ HasIdentityMethods(field_template) =>
                      "EQUALS_HASHCODE" \in args.inverse_side_other_enum
        /\ \A i \in 1..Len(effects) :
               (effects[i].side = "inverse"
                   /\ HasIdentityMethods(effects[i].text)) =>
                      \/ "EQUALS_HASHCODE" \in args.inverse_side_other_enum
                      \/ HasIdentityMethods(disk0[effects[i].path])

\* a many-to-many command has written the identity methods to the inverse
\* file, the owning side having asked for them too
C9_Witness ==
    /\ kind = "many_to_many"
    /\ pc = "done"
    /\ "EQUALS_HASHCODE" \in args.owning_side_other_enum
    /\ owning_data.path # inverse_data.path
    /\ Written("owning")
    /\ ~HasIdentityMethods(disk0[inverse_data.path])
    /\ \E i \in 1..Len(effects) :
           /\ effects[i].side = "inverse"
           /\ effects[i].op = "write"
           /\ HasIdentityMethods(effects[i].text)

-----------------------------------------------------------------------------
(* C10 *)

\* the flags set in the call
FlagsOf(c) == {CascadeNames[i] : i \in {j \in 1..5 : c[j]}}

\* the flags a cascade parameter names, in the order it names them
Listed(out) == SelectSeq(out, LAMBDA t : t \in AllCascades \cup {"ALL"})

\* how often a token occurs
Count(out, tok) == Cardinality({i \in 1..Len(out) : out[i] = tok})

\* C10: for every subset S of the five cascade flags, process_cascades_params
\* returns CascadeType.ALL iff S has all five, the single flag without
\* braces iff S has one, nothing iff S is empty, and otherwise a list in
\* braces, joined by commas, of exactly the flags of S in the order PERSIST,
\* MERGE, REMOVE, REFRESH, DETACH.
C10_CascadeComposition ==
    (ret # <<>> /\ call.fn = "process_cascades_params") =>
        LET S == FlagsOf(call.cascades)
            n == Cardinality(S)
            out == ret[1].out
            InOrder == SelectSeq(CascadeNames, LAMBDA c : c \in S)
        IN  /\ IsNone(out) <=> n = 0
            /\ n > 0 =>
                   LET p == out[1] IN
                   /\ p[1] = "cascade = "
                   /\ Has(p, "ALL") <=> n = 5
                   /\ Has(p, "{") <=> n \in 2..4
                   /\ n = 5 => Render(p) = "cascade = CascadeType.ALL"
                   /\ n = 1 =>
                          Render(p) = "cascade = CascadeType." \o InOrder[1]
                   /\ n < 5 => Listed(p) = InOrder
                   /\ n \in 2..4 =>
                          /\ p[2] = "{" /\ p[Len(p)] = "}"
                          /\ Count(p, "{") = 1 /\ Count(p, "}") = 1
                          /\ Count(p, ", ") = n - 1
                          /\ Count(p, "CascadeType.") = n
                          /\ Len(p) = 3 * n + 2
                          /\ \A i \in 1..n :
                                 /\ p[3 * i] = "CascadeType."
                                 /\ p[3 * i + 1] = InOrder[i]

\* three flags, not adjacent, have come out in braces in the fixed order
C10_Witness ==
    /\ ret # <<>>
    /\ call.fn = "process_cascades_params"
    /\ FlagsOf(call.cascades) = {"DETACH", "PERSIST", "REMOVE"}
    /\ Render(ret[1].out[1]) =
           "cascade = {CascadeType.PERSIST, CascadeType.REMOVE, CascadeType.DETACH}"

-----------------------------------------------------------------------------
(* CreateJavaFile.  A path is the sequence of its parts; the file system is *)
(* disk = [files: path -> Optional text, dirs: the directories]; ub holds   *)
(* the locals of create_java_file; effects lists what was done to the file  *)
(* system, the editor and the log.                                          *)

MaxCreates == 2

\* CreateJavaFile.get_boiler_plate
get_boiler_plate(file_type, package_path, file_name) ==
    IF file_type \in {"class", "interface", "enum"}
    THEN <<"package ", package_path, ";", "\n\n", "public ", file_type, " ",
           file_name, " {", "\n\n", "}">>
    ELSE IF file_type = "record"
    THEN <<"package ", package_path, ";", "\n\n", "public ", "record", " ",
           file_name, "(", "\n\n", ") {}">>
    ELSE <<"package ", package_path, ";", "\n\n", "public ", "@interface", " ",
           file_name, " {", "\n\n", "}">>

\* package_path.split("."): a package is kept as the sequence of its names
DottedName(names) == Render(Join(".", [i \in 1..Len(names) |-> <<names[i]>>]))

\* CreateJavaFile.get_file_path: None for the ValueError raised when no
\* part of the directory of the main class is "main"
get_file_path(main_class_path, package_names, file_name) ==
    LET base_path == SubSeq(main_class_path, 1, Len(main_class_path) - 1)
        mains == {i \in 1..Len(base_path) : base_path[i] = "main"}
    IN  IF mains = {} THEN None
        ELSE LET index_to_replace == (CHOOSE i \in mains : \A j \in mains : i <= j) - 1
                 upto == IF index_to_replace + 2 > Len(base_path)
                         THEN Len(base_path) ELSE index_to_replace + 2
             IN  Some(SubSeq(base_path, 1, upto) \o package_names
                      \o <<file_name \o ".java">>)

\* file_path.exists(), with the test left out
ExistsNever(files, file_path) == FALSE

\* file_path.exists()
Exists(files, file_path) == ~IsNone(files[file_path])

\* the directories above a path
Parents(path) == {SubSeq(path, 1, k) : k \in 1..(Len(path) - 1)}

MainClassPaths ==
    {<<"proj", "src", "main", "java", "com", "Main.java">>,
     <<"proj", "src", "Main.java">>}

PackageNames == {<<"com">>, <<"com", "app">>}

FileNames == {"Order", "Customer"}

FileTypes == {"class", "record", "annotation"}

\* the arguments of create_java_file
CreateArgs ==
    [main_class_path : MainClassPaths, package_names : PackageNames,
     file_name : FileNames, file_type : FileTypes]

\* the files create_java_file can name
FilePaths ==
    {get_file_path(a.main_class_path, a.package_names, a.file_name)[1] :
        a \in {b \in CreateArgs :
                  ~IsNone(get_file_path(b.main_class_path, b.package_names,
                                        b.file_name))}}

\* a file written by hand before the command
OldText == <<"// ", "kept">>

NoLocals == [boiler_plate |-> <<>>, file_path |-> None, buffered |-> <<>>]

CreateInit ==
    /\ pc = "idle"
    /\ args = NoArgs
    /\ ub = NoLocals
    /\ \E old \in SUBSET {<<"proj", "src", "main", "java", "com", "Order.java">>} :
          disk = [files |-> [p \in FilePaths |->
                                IF p \in old THEN Some(OldText) ELSE None],
                  dirs |-> UNION {Parents(m) : m \in MainClassPaths}]
    /\ disk0 = disk
    /\ editor = <<>>
    /\ effects = <<>>
    /\ failure = ""
    /\ runs = 0
    /\ kind = ""
    /\ owning_data = NoFileData
    /\ inverse_data = NoFileData
    /\ field_template = <<>>
    /\ importing_list = <<>>
    /\ steps = <<>>
    /\ call = <<>>
    /\ ret = <<>>

\* what create_java_file never touches
CreateFrame ==
    UNCHANGED <<kind, owning_data, inverse_data, field_template,
                importing_list, steps, call, ret>>

\* the host calls create_java_file
InvokeCreateJavaFile ==
    /\ pc \in {"idle", "done", "failed"}
    /\ runs < MaxCreates
    /\ \E a \in CreateArgs : args' = a
    /\ pc' = "get_boiler_plate"
    /\ ub' = NoLocals
    /\ disk0' = disk
    /\ effects' = <<>>
    /\ failure' = ""
    /\ runs' = runs + 1
    /\ UNCHANGED <<disk, editor>>
    /\ CreateFrame

\* boiler_plate = self.get_boiler_plate(...)
GetBoilerPlate ==
    /\ pc = "get_boiler_plate"
    /\ ub' = [ub EXCEPT !.boiler_plate =
                  get_boiler_plate(args.file_type,
                                   DottedName(args.package_names),
                                   args.file_name)]
    /\ pc' = "get_file_path"
    /\ UNCHANGED <<args, disk, disk0, editor, effects, failure, runs>>
    /\ CreateFrame

\* file_path = self.get_file_path(...): logs and raises without a "main"
GetFilePath ==
    /\ pc = "get_file_path"
    /\ LET file_path == get_file_path(args.main_class_path,
                                      args.package_names, args.file_name)
       IN  IF IsNone(file_path)
           THEN /\ effects' = Append(effects,
                       [op |-> "log", path |-> <<>>,
                        text |-> "Unable to parse root directory."])
                /\ failure' = "Unable to parse root directory"
                /\ pc' = "failed"
                /\ ub' = ub
           ELSE /\ ub' = [ub EXCEPT !.file_path = file_path]
                /\ pc' = "exists"
                /\ UNCHANGED <<effects, failure>>
    /\ UNCHANGED <<args, disk, disk0, editor, runs>>
    /\ CreateFrame

\* if not file_path.exists(): ... else: log the error
TestExists ==
    /\ pc = "exists"
    /\ IF ~Exists(disk.files, ub.file_path[1])
       THEN pc' = "mkdir" /\ effects' = effects
       ELSE /\ effects' = Append(effects,
                   [op |-> "log", path |-> ub.file_path[1],
                    text |-> "Failed to create file because it already exists"])
            /\ pc' = "done"
    /\ UNCHANGED <<args, ub, disk, disk0, editor, failure, runs>>
    /\ CreateFrame

\* file_path.parent.mkdir(parents=True, exist_ok=True)
Mkdir ==
    /\ pc = "mkdir"
    /\ disk' = [disk EXCEPT !.dirs = @ \cup Parents(ub.file_path[1])]
    /\ effects' = Append(effects, [op |-> "mkdir", path |-> ub.file_path[1],
                                   text |-> ""])
    /\ pc' = "open"
    /\ UNCHANGED <<args, ub, disk0, editor, failure, runs>>
    /\ CreateFrame

\* open(file_path, "w"): creates the file empty, or raises OSError
OpenFile ==
    /\ pc = "open"
    /\ \/ /\ disk' = [disk EXCEPT !.files[ub.file_path[1]] = Some(<<>>)]
          /\ effects' = Append(effects, [op |-> "open", path |-> ub.file_path[1],
                                         text |-> ""])
          /\ pc' = "write"
          /\ failure' = failure
       \/ /\ failure' = "OSError"
          /\ pc' = "failed"
          /\ UNCHANGED <<disk, effects>>
    /\ UNCHANGED <<args, ub, disk0, editor, runs>>
    /\ CreateFrame

\* java_file.write(boiler_plate): into the buffer of the file object
WriteBoilerPlate ==
    /\ pc = "write"
    /\ ub' = [ub EXCEPT !.buffered = ub.boiler_plate]
    /\ effects' = Append(effects, [op |-> "write", path |-> ub.file_path[1],
                                   text |-> ub.boiler_plate])
    /\ pc' = "edit"
    /\ UNCHANGED <<args, disk, disk0, editor, failure, runs>>
    /\ CreateFrame

\* self.nvim.command(f"edit {file_path}"), inside the with block; when it
\* raises, the with block closes the file on the way out
EditNewFile ==
    /\ pc = "edit"
    /\ \/ /\ effects' = Append(effects, [op |-> "edit", path |-> ub.file_path[1],
                                         text |-> ""])
          /\ editor' = Append(editor, ub.file_path[1])
          /\ pc' = "close"
          /\ UNCHANGED <<disk, failure>>
       \/ /\ disk' = [disk EXCEPT !.files[ub.file_path[1]] = Some(ub.buffered)]
          /\ failure' = "NvimError"
          /\ pc' = "failed"
          /\ UNCHANGED <<effects, editor>>
    /\ UNCHANGED <<args, ub, disk0, runs>>
    /\ CreateFrame

\* the end of the with block: the buffer is flushed and the file closed
CloseFile ==
    /\ pc = "close"
    /\ disk' = [disk EXCEPT !.files[ub.file_path[1]] = Some(ub.buffered)]
    /\ pc' = "done"
    /\ UNCHANGED <<args, ub, disk0, editor, effects, failure, runs>>
    /\ CreateFrame

CreateNext ==
    \/ InvokeCreateJavaFile
    \/ GetBoilerPlate
    \/ GetFilePath
    \/ TestExists
    \/ Mkdir
    \/ OpenFile
    \/ WriteBoilerPlate
    \/ EditNewFile
    \/ CloseFile

CreateSpec == CreateInit /\ [][CreateNext]_vars

-----------------------------------------------------------------------------
(* C11 *)

\* C11: generate_equals_hashcode_methods returns the equals and the hashCode
\* method, both, if and only if the public class of the tree declares
\* neither; if it declares either or both, it returns nothing.
C11_IdentityMethodsIffNeither ==
    (ret # <<>> /\ call.fn = "generate_equals_hashcode_methods") =>
        \A e \in BOOLEAN, h \in BOOLEAN, x \in BOOLEAN :
            call.file_tree.text = ClassText(e, h, x) =>
                LET out == ret[1].out IN
                /\ ~IsNone(out) <=> (~e /\ ~h)
                /\ ~IsNone(out) =>
                       /\ Count(out[1], "equals") = 1
                       /\ Count(out[1], "hashCode") = 1

\* nothing came out for a class that declares hashCode alone
C11_Witness ==
    /\ ret # <<>>
    /\ call.fn = "generate_equals_hashcode_methods"
    /\ call.file_tree.text = ClassText(FALSE, TRUE, FALSE)
    /\ IsNone(ret[1].out)

-----------------------------------------------------------------------------
(* C12 *)

\* C12: however often many-to-many creation with identity methods asked for
\* is run on the same inverse file, no file ever holds two equals or two
\* hashCode methods: built for a file that holds them, the inverse fragment
\* has neither.
C12_IdentityMethodsOnce ==
    /\ \A p \in Paths :
           /\ Count(disk[p], "equals") <= 1
           /\ Count(disk[p], "hashCode") <= 1
    /\ (pc = "update_inverse" /\ HasIdentityMethods(disk0[inverse_data.path]))
           => ~HasIdentityMethods(field_template)

\* the second command, asked for identity methods on a file the first gave
\* them to, has written the file and it holds one of each
C12_Witness ==
    /\ runs = 2
    /\ pc = "done"
    /\ "EQUALS_HASHCODE" \in args.inverse_side_other_enum
    /\ owning_data.path # inverse_data.path
    /\ Written("inverse")
    /\ HasIdentityMethods(disk0[inverse_data.path])
    /\ Count(disk[inverse_data.path], "equals") = 1
    /\ Count(disk[inverse_data.path], "hashCode") = 1

-----------------------------------------------------------------------------
(* C13 *)

\* the least position of S
First(S) == CHOOSE i \in S : \A j \in S : i <= j

\* the name of the first field a text declares: the token after the blank
\* that follows the type of the first "private "
FieldNameIn(text) ==
    LET decl == First({i \in 1..Len(text) : text[i] = "private "})
        blank == First({i \in (decl + 1)..Len(text) : text[i] = " "})
    IN  text[blank + 1]

\* the value of the mappedBy parameter of a fragment
MappedByIn(fragment) ==
    fragment[First({i \in 1..Len(fragment) : fragment[i] = "mappedBy = "}) + 2]

\* C13: in every bidirectional creation of every kind, the mappedBy value of
\* the inverse fragment is the name of the field the same invocation wrote
\* to the owning file.
C13_MappedByNamesOwningField ==
    (/\ pc = "update_inverse"
     /\ Ops(SideEffects("owning")) = <<"write", "e", "w">>
     /\ ~Has(disk0[owning_data.path], "private ")
     /\ Has(field_template, "mappedBy = "))
        => MappedByIn(field_template) = FieldNameIn(SideEffects("owning")[1].text)

-----------------------------------------------------------------------------
(* C14 *)

\* the call of the scenario: inverse class Customer, EAGER, PERSIST and
\* MERGE, mandatory, not unique
C14_Call ==
    /\ call.fn = "generate_many_to_one_template"
    /\ call.inverse_side_file_data.path = "Customer.java"
    /\ call.fetch_type = FetchEager
    /\ call.cascades = <<TRUE, TRUE, FALSE, FALSE, FALSE>>
    /\ call.mandatory
    /\ ~call.unique

\* C14: many-to-one creation towards Customer with fetch EAGER, cascades
\* PERSIST and MERGE, mandatory and not unique gives the owning file a
\* fragment of exactly three lines: @ManyToOne with optional, fetch and
\* cascade in that order, @JoinColumn with name, nullable and unique in that
\* order, and the field private Customer customer.
C14_ManyToOneFragment ==
    (ret # <<>> /\ C14_Call) =>
        Render(ret[1].out) =
            "\n\t@ManyToOne(optional = false, fetch = FetchType.EAGER, "
            \o "cascade = {CascadeType.PERSIST, CascadeType.MERGE})"
            \o "\n\t@JoinColumn(name = \"customer_id\", nullable = false, "
            \o "unique = false)"
            \o "\n\tprivate Customer customer;\n"

C14_Witness == ret # <<>> /\ C14_Call /\ Has(ret[1].out, "@JoinColumn")

-----------------------------------------------------------------------------
(* C15 *)

\* the call of the scenario: owning class Order, inverse class Customer, a
\* LIST, no orphan removal, no cascades
C15_Call ==
    /\ call.fn = "generate_one_to_many_template"
    /\ call.owning_side_file_data.path = "Order.java"
    /\ call.inverse_side_file_data.path = "Customer.java"
    /\ call.cascades = <<FALSE, FALSE, FALSE, FALSE, FALSE>>
    /\ ~call.orphan_removal
    /\ call.collection_type = CollectionList

\* C15 as stated: the fragment for Customer.java is the annotation
\* @OneToMany(mappedBy = "order") and the field
\* private List<Order> orders = new ArrayList<>();
C15_MappedByOrder ==
    (ret # <<>> /\ C15_Call) =>
        Render(ret[1].out) =
            "\n\t@OneToMany(mappedBy = \"order\")"
            \o "\n\tprivate List<Order> orders = new ArrayList<>();\n"

\* C15: in the scenario the fragment for Customer.java is the annotation
\* @OneToMany(mappedBy = "customer", orphanRemoval = false), which names the
\* field of Order, and the field
\* private List<Order> orders = new ArrayList<>();
C15_MappedByCustomer ==
    (ret # <<>> /\ C15_Call) =>
        Render(ret[1].out) =
            "\n\t@OneToMany(mappedBy = \"customer\", orphanRemoval = false)"
            \o "\n\tprivate List<Order> orders = new ArrayList<>();\n"

C15_Witness == ret # <<>> /\ C15_Call /\ Has(ret[1].out, "@OneToMany")

-----------------------------------------------------------------------------
(* C16 *)

\* T[:O] + F + T[O:] with O counted in bytes, O at the end of a token
ByteSplice(T, F, O) ==
    LET k == CHOOSE k \in 0..Len(T) : ByteLen(SubSeq(T, 1, k)) = O
    IN  SubSeq(T, 1, k) \o F \o SubSeq(T, k + 1, Len(T))

\* C16: for every text T, also with multi-byte characters before the offset,
\* every fragment F and the byte offset O of the locator, the tree returned
\* by the splice has the text T[:O] + F + T[O:] with O counted in bytes, and
\* splicing nothing into that text gives the same text again.
C16_SpliceAtByteOffset ==
    (ret # <<>> /\ call.fn = "insert_code_into_position") =>
        LET t == ret[1].out IN
        /\ ~IsNone(t)
        /\ t[1].text = ByteSplice(call.tree.text, call.code,
                                  call.insert_position)
        /\ insert_code_into_position(t[1], <<>>, call.insert_position)
               = Some(t[1])

-----------------------------------------------------------------------------
(* C17 *)

\* the set of the elements of a sequence
Range(s) == {s[i] : i \in 1..Len(s)}

\* C17: right after the merge of the imports, the import block of the tree
\* holds exactly the imports the given tree had and the pending ones, each
\* fully-qualified name once.
C17_ImportsAreUnion ==
    pc = "offset" =>
        LET had == ImportsOf(ub.buffer_tree.text)
            has == ImportsOf(ub.updated_buffer_tree.text)
        IN  /\ Range(has) = Range(had) \cup Range(importing_list)
            /\ Cardinality(Range(has)) = Len(has)

\* a merge with a pending import the file already had, and one it had not
C17_Witness ==
    /\ pc = "offset"
    /\ Range(ImportsOf(ub.buffer_tree.text)) \cap Range(importing_list) # {}
    /\ Range(importing_list) \ Range(ImportsOf(ub.buffer_tree.text)) # {}
    /\ Has(ub.updated_buffer_tree.text, "java.util.List")

-----------------------------------------------------------------------------
(* C18 *)

\* every text written to the inverse file imports only what the file
\* imported before the command and what the inverse fragment declares
InverseImportsItsOwn ==
    \A i \in 1..Len(effects) :
        (/\ effects[i].side = "inverse"
         /\ effects[i].op = "write"
         /\ owning_data.path # inverse_data.path)
            => Range(ImportsOf(effects[i].text)) \subseteq
                   Range(ImportsOf(disk0[inverse_data.path]))
                   \cup Range(InverseTemplate(kind, owning_data, inverse_data,
                                              args).imports)

\* C18: building a fragment changes no state but its result, the imports it
\* needs being part of the result and not added to a shared list; so the
\* imports of the owning fragment never reach the inverse file.
C18_GeneratorsPure ==
    /\ [][(pc \in {"build_owning", "build_inverse"})
              => (importing_list' = importing_list)]_vars
    /\ []InverseImportsItsOwn

-----------------------------------------------------------------------------
(* C19 *)

\* the upper-case letters of s at positions 2..i
UppersUpTo(s, i) == Cardinality({j \in 2..i : IsUpper(s[j])})

\* C19: the snake-case name has one underscore right before every upper-case
\* letter that is not the first character, consecutive ones included, none
\* before the first character, and every letter in lower case: "UserProfile"
\* gives "user_profile" and "ID" gives "i_d".
C19_SnakeCase ==
    (ret # <<>> /\ call.fn = "generate_snaked_field_name") =>
        LET s == call.field_name
            out == ret[1].out
            pos(i) == i + UppersUpTo(s, i)
        IN  /\ Len(out) = Len(s) + UppersUpTo(s, Len(s))
            /\ Count(out, "_") = UppersUpTo(s, Len(s))
            /\ \A i \in 1..Len(s) :
                   /\ out[pos(i)] = LowerChar(s[i])
                   /\ (i > 1 /\ IsUpper(s[i])) => out[pos(i) - 1] = "_"
            /\ Len(out) > 0 => out[1] # "_"
            /\ s = <<"U", "s", "e", "r", "P", "r", "o", "f", "i", "l", "e">>
                   => Render(out) = "user_profile"
            /\ s = <<"I", "D">> => Render(out) = "i_d"

C19_Witness ==
    /\ ret # <<>>
    /\ call.fn = "generate_snaked_field_name"
    /\ call.field_name = <<"A", "B", "a", "B">>
    /\ Render(ret[1].out) = "a_ba_b"

-----------------------------------------------------------------------------
(* C20 *)

Sibilant(w) ==
    \E sfx \in {<<"s">>, <<"s","h">>, <<"c","h">>, <<"x">>, <<"z">>} :
        EndsWith(w, sfx)

\* a trailing y after a character that is none of a, e, i, o, u
ConsonantY(w) == EndsWith(w, <<"y">>) /\ w[Len(w) - 1] \notin Vowels

\* the plural the rules give, each rule applying when none before it did
PluralByRules(w, out) ==
    /\ Sibilant(w) => out = w \o <<"e", "s">>
    /\ (~Sibilant(w) /\ ConsonantY(w))
          => out = SubSeq(w, 1, Len(w) - 1) \o <<"i", "e", "s">>
    /\ (~Sibilant(w) /\ ~ConsonantY(w) /\ EndsWith(w, <<"f">>))
          => out = SubSeq(w, 1, Len(w) - 1) \o <<"v", "e", "s">>
    /\ (~Sibilant(w) /\ ~ConsonantY(w) /\ ~EndsWith(w, <<"f">>)
        /\ EndsWith(w, <<"f", "e">>))
          => out = SubSeq(w, 1, Len(w) - 2) \o <<"v", "e", "s">>
    /\ (~Sibilant(w) /\ ~ConsonantY(w) /\ ~EndsWith(w, <<"f">>)
        /\ ~EndsWith(w, <<"f", "e">>))
          => out = w \o <<"s">>

-----------------------------------------------------------------------------
(* C21 *)

\* C21 as stated: every word ending in fe is pluralized by the rule for a
\* trailing f, its last character dropped and ves appended, never by the
\* rule for a trailing fe.
C21_FeCaughtByF ==
    (ret # <<>> /\ call.fn = "pluralize" /\ EndsWith(call.word, <<"f", "e">>))
        => ret[1].out = SubSeq(call.word, 1, Len(call.word) - 1)
                        \o <<"v", "e", "s">>

\* C21: a word ending in fe does not end in f, so no rule before the one for
\* a trailing fe matches it: its plural is the word without its last two
\* characters, with ves appended.
C21_FeByItsOwnRule ==
    (ret # <<>> /\ call.fn = "pluralize" /\ EndsWith(call.word, <<"f", "e">>))
        => ret[1].out = SubSeq(call.word, 1, Len(call.word) - 2)
                        \o <<"v", "e", "s">>

C21_Witness ==
    /\ ret # <<>>
    /\ call.fn = "pluralize"
    /\ call.word = <<"a", "f", "e">>
    /\ Render(ret[1].out) = "aves"

-----------------------------------------------------------------------------
(* C22 *)

\* C22: deriving the field name, without pluralization, of a field name so
\* derived gives that field name again.
C22_DecapitalizeIdempotent ==
    (ret # <<>> /\ call.fn = "generate_field_name" /\ ~call.plural)
        => generate_field_name(ret[1].out, FALSE) = ret[1].out

\* a name with an upper-case first letter has been decapitalized
C22_Witness ==
    /\ ret # <<>>
    /\ call.fn = "generate_field_name"
    /\ ~call.plural
    /\ call.field_type = <<"B", "a", "B">>
    /\ ret[1].out = <<"b", "a", "B">>

-----------------------------------------------------------------------------
(* C23 *)

\* the last line of the modifiers of the class at c ends with the public
\* token
EndsWithPublic(text, c) ==
    LET line == LastLine(ModifiersText(text, c))
    IN  line # <<>> /\ line[Len(line)] = "public"

\* C23: the lookup returns a class whose modifiers end with the public
\* token on their last line, whatever stands before the token on that line
\* or on earlier lines, and returns none exactly when no class of the tree
\* is such a class.
C23_EndsWithPublicToken ==
    (ret # <<>>
     /\ call.fn = "get_buffer_public_class_node_from_query_results") =>
        LET text == call.tree.text
            node == ret[1].out
        IN  /\ ~IsNone(node) => EndsWithPublic(text, node[1])
            /\ IsNone(node)
                  <=> ~\E i \in 1..Len(call.query_results) :
                          EndsWithPublic(text, call.query_results[i])

-----------------------------------------------------------------------------
(* C24 *)

\* the one method the class at c declares in its own body
OwnMethod(text, c) == IF text[c + 1] = "Outer" THEN "getId" ELSE "equals"

-----------------------------------------------------------------------------
(* C25 *)

\* C25: for every pair of class names the join-table body names the table
\* snake_case(owning)_snake_case(inverse) and has exactly two join-column
\* clauses, joinColumns named snake_case(owning)_id and then
\* inverseJoinColumns named snake_case(inverse)_id.
C25_JoinTableBody ==
    (ret # <<>> /\ call.fn = "generate_join_table_body") =>
        LET o == Render(generate_snaked_field_name(call.owning_side_field_type))
            i == Render(generate_snaked_field_name(call.inverse_side_field_type))
            out == ret[1].out
        IN  /\ Render(out) =
                   "@JoinTable(name = \"" \o o \o "_" \o i \o "\", "
                   \o "joinColumns = @JoinColumn(name = \"" \o o \o "_id\"), "
                   \o "inverseJoinColumns = @JoinColumn(name = \"" \o i
                   \o "_id\"))"
            /\ Count(out, "@JoinColumn") = 2

C25_Witness ==
    /\ ret # <<>>
    /\ call.fn = "generate_join_table_body"
    /\ call.owning_side_field_type
           = <<"U", "s", "e", "r", "P", "r", "o", "f", "i", "l", "e">>
    /\ call.inverse_side_field_type = FileNameOf("Order.java")
    /\ Render(ret[1].out) =
           "@JoinTable(name = \"user_profile_order\", "
           \o "joinColumns = @JoinColumn(name = \"user_profile_id\"), "
           \o "inverseJoinColumns = @JoinColumn(name = \"order_id\"))"

-----------------------------------------------------------------------------
(* C26 *)

\* the text holds the fragment, token for token
Contains(text, fragment) ==
    \E i \in 0..(Len(text) - Len(fragment)) :
        SubSeq(text, i + 1, i + Len(fragment)) = fragment

\* C26: when both records are of the same file and the mapping calls for an
\* inverse side, the file at Done holds the fragment of the owning side and
\* the fragment of the inverse side.
C26_SelfReferenceKeepsBoth ==
    (/\ pc = "done"
     /\ owning_data.path = inverse_data.path
     /\ CallsForInverse(kind, args.mapping_type_enum)
     /\ Written("owning") /\ Written("inverse"))
        => /\ Contains(disk[owning_data.path],
                       OwningTemplate(kind, owning_data, inverse_data, args).out)
           /\ Contains(disk[owning_data.path],
                       InverseTemplate(kind, owning_data, inverse_data, args).out)

-----------------------------------------------------------------------------
(* C27 *)

\* the last line of the modifiers of the class at c is public
LastLineIsPublic(text, c) == LastLine(ModifiersText(text, c)) = <<"public">>

\* C27: when several class declarations of a tree qualify as public, the
\* lookup returns the one that comes last in the order of the query's
\* results, not the first and not the outermost.
C27_LastQualifyingClass ==
    (ret # <<>>
     /\ call.fn = "get_buffer_public_class_node_from_query_results") =>
        LET text == call.tree.text
            results == call.query_results
            node == ret[1].out
        IN  /\ ~IsNone(node) => LastLineIsPublic(text, node[1])
            /\ \A i \in 1..Len(results) :
                   LastLineIsPublic(text, results[i]) =>
                       /\ ~IsNone(node)
                       /\ \E j \in i..Len(results) : node[1] = results[j]

\* a public class nested in a public class: the nested one is returned
C27_Witness ==
    /\ ret # <<>>
    /\ call.fn = "get_buffer_public_class_node_from_query_results"
    /\ call.tree.text = JavaText(<<"public", " ">>, <<"public", " ">>, TRUE)
    /\ ~IsNone(ret[1].out)
    /\ call.tree.text[ret[1].out[1] + 1] = "Inner"

-----------------------------------------------------------------------------
(* C28 *)

\* C28: whatever cascade flags it is given, the @ManyToMany annotation has
\* neither CascadeType.REMOVE nor CascadeType.ALL; given PERSIST, MERGE,
\* REFRESH and DETACH it has the list of these four in braces.
C28_ManyToManyCascades ==
    (ret # <<>> /\ call.fn = "generate_many_to_many_annotation_body") =>
        LET out == ret[1].out IN
        /\ ~Has(out, "REMOVE")
        /\ ~Has(out, "ALL")
        /\ call.cascades = <<TRUE, TRUE, TRUE, TRUE>> =>
              Contains(out, <<"cascade = ", "{", "CascadeType.", "PERSIST", ", ",
                              "CascadeType.", "MERGE", ", ",
                              "CascadeType.", "REFRESH", ", ",
                              "CascadeType.", "DETACH", "}">>)

C28_Witness ==
    /\ ret # <<>>
    /\ call.fn = "generate_many_to_many_annotation_body"
    /\ call.cascades = <<TRUE, TRUE, TRUE, TRUE>>
    /\ call.mapped_by = None
    /\ Render(ret[1].out) =
           "@ManyToMany(cascade = {CascadeType.PERSIST, CascadeType.MERGE, "
           \o "CascadeType.REFRESH, CascadeType.DETACH})"

-----------------------------------------------------------------------------
(* C29 *)

-----------------------------------------------------------------------------
(* C30 *)

\* the file was there when create_java_file was called
Existed(file_path) == disk0.files[file_path] # None

\* what the running call has done to the file system and the editor
FileSystemOps == Ops(SelectSeq(effects, LAMBDA e : e.op # "log"))

\* C30: create_java_file leaves every file that existed when it was called
\* as it was; when its target existed it makes no directory, writes no byte
\* and sends no editor command, and ends having logged an error; a file is
\* written only when the target did not exist, after the directories above
\* it were made, and opened in the editor after that.
C30_NeverOverwrites ==
    /\ \A p \in FilePaths :
           Existed(p) => disk.files[p] = disk0.files[p]
    /\ (~IsNone(ub.file_path) /\ Existed(ub.file_path[1])) =>
           /\ FileSystemOps = <<>>
           /\ pc = "done" =>
                 /\ effects # <<>>
                 /\ effects[Len(effects)].op = "log"
                 /\ effects[Len(effects)].path = ub.file_path[1]
    /\ IsPrefix(FileSystemOps, <<"mkdir", "open", "write", "edit">>)
    /\ \A i \in 1..Len(effects) :
           effects[i].op = "open" => Parents(effects[i].path) \subseteq disk.dirs

\* the second call names the file the first call created
C30_Witness ==
    /\ runs = 2
    /\ pc = "done"
    /\ ~IsNone(ub.file_path)
    /\ Existed(ub.file_path[1])
    /\ disk0.files[ub.file_path[1]] # Some(OldText)
    /\ disk.files[ub.file_path[1]] = disk0.files[ub.file_path[1]]
    /\ Len(effects) = 1

====
